---- MODULE Spec2Model ----
(***************************************************************************)
(* Tile-race bot: the submission -> review -> ledger workflow.             *)
(*                                                                         *)
(* The repository holds three generations of the bot.  The first (test.py) *)
(* only records: /submit appends the ledger row and answers.  The          *)
(* reaction-driven one (test-noGPT.py, test-GPT.py) writes the row at      *)
(* creation, tracks posted approval messages in                            *)
(* submission_message_guild_map and decides on a reaction.  The            *)
(* button-driven one (tilerace.py) writes the row at approval, keeps no    *)
(* map and decides through Approve / pick item / enter amount, or Deny.    *)
(* `variant` says which program is running.                                *)
(*                                                                         *)
(* Handlers are coroutines on one event loop: the code between two awaits  *)
(* is one atomic step.  A step is: the awaited call takes effect, the      *)
(* coroutine resumes and runs up to its next await.                        *)
(***************************************************************************)
EXTENDS Integers, Sequences, FiniteSets, Bags, TLC

VARIABLES
    variant,        \* "direct" (test.py), "reaction" (test-noGPT.py / test-GPT.py)
                    \* or "buttons" (tilerace.py)
    modeCell,       \* CompetitionInformation!B1
    team_sheet,     \* TeamDetails: all its rows, the header row first
    submissions_row1,   \* Submissions!1:1, the header row of the ledger sheet
    clock,          \* number of creation timestamps handed out by datetime.now()
    ledger,         \* the Submissions sheet below its header: a sequence of rows
    messages,       \* approval-channel messages by id
    forwarded,      \* bag of [ch, embed]: what was sent to approved / denied channels
    submission_message_guild_map,   \* reaction variant: message id -> lookup key
    api_cost_log,   \* reaction variant: the APICostLog sheet below its header
    HEALTH,         \* buttons variant: [sheets_ready, last_error]
    handles,        \* buttons variant: the client and worksheet globals that are set
    initTask,       \* buttons variant: init_sheets_with_retry's locals
    SUBMISSION_HEADER, \* buttons variant: cached header row of Submissions
    tile_names,     \* buttons variant: tile names in sheet order
    tile_items,     \* buttons variant: tile -> items
    prompts,        \* buttons variant: ItemSelectView prompts on screen
    modals,         \* buttons variant: AmountModal dialogs on screen
    APPROVAL_STATE, \* buttons variant: <<message id, approver>> -> [item]
    tasks           \* bag of events in flight and of handlers suspended at an await

vars == <<variant, modeCell, team_sheet, submissions_row1, clock, ledger, messages, forwarded,
          submission_message_guild_map, api_cost_log, HEALTH, handles,
          initTask, SUBMISSION_HEADER,
          tile_names, tile_items, prompts, modals, APPROVAL_STATE, tasks>>

\* what no handler writes: the program that runs and the cells its operators keep
Config == <<variant, modeCell, team_sheet, submissions_row1>>

----------------------------------------------------------------------------
(* Bounds of the model *)

MaxSubmits == 1     \* creation timestamps handed out; no /submit is taken after the last
MaxTasks == 2       \* events in flight plus handlers suspended, at the same time
MaxRows == 2        \* rows the ledger can hold
MaxDenied == 1      \* copies the denied channels can hold

----------------------------------------------------------------------------
(* Values *)

None == "None"
NoGuild == 0        \* interaction.guild is None
Msgs == 1..MaxSubmits

BOT == "bot"
Approvers == {"ann", "ben", "cat"}      \* people who can see the approval channel
Administrator == {"ann"}
ManageMessages == {"ben"}
Submitter == "sam"
\* who presses what in the approval channel
ApprovePressers == {"ann", "cat"}
DenyPressers == {"ann", "ben", "cat"}

Guilds == {12345, 99999}
SubmitChannels == {10, 20}
\* str() and int() on the ids that occur
IdStr == (12345 :> "12345") @@ (99999 :> "99999") @@ (10 :> "10") @@ (20 :> "20")
IntOf == ("111" :> 111) @@ ("222" :> 222) @@ ("333" :> 333) @@ ("444" :> 444) @@
         ("12345" :> 12345) @@ ("99999" :> 99999) @@ ("10" :> 10) @@ ("20" :> 20) @@
         ("0" :> 0) @@ ("1" :> 1) @@ ("-1" :> (0 - 1)) @@
         ("555" :> 555)
\* int(s) raises ValueError on any other text
IsInt(s) == s \in DOMAIN IntOf

\* TeamDetails: header row, then [TeamName, submission_id, approval, approved, denied]
TeamHeader == <<"Team", "SubmissionID", "Approval", "Approved", "Denied">>
TeamDetails == << TeamHeader,
                  <<"Team 1", "12345", "111", "222", "333">>,
                  <<"Team 2", "10", "111", "444", "555">> >>

\* TilesActivities as the reaction variants load it: tile -> activities
tile_activities == ("Zulrah" :> <<"Tanzanite Fang", "Magic Fang">>)
\* and as tilerace loads it: tile names, tile -> items
LoadedTileNames == <<"Zulrah">>
LoadedTileItems == ("Zulrah" :> <<"Tanzanite Fang">>)
\* Submissions!1:1 as it may be found at start-up
SubmissionsHeader == <<"Timestamp", "SubmissionID", "User", "Tile", "Activity", "Item",
                       "Amount", "Image">>
\* and once the legacy Activity column has been removed from the sheet
SubmissionsHeaderNoActivity == <<"Timestamp", "SubmissionID", "User", "Tile", "Item",
                                 "Amount", "Image">>
ItemInputs == {"Tanzanite Fang", "Unknown"}

TileInputs == {"Zulrah", "Vorkath"}
ActivityInputs == {"Tanzanite Fang", "Dragon Bones"}
AmountInputs == {0, 1}
AmountTexts == {"0", "1", "x", "-1"}
ImageUrl == "img"
Variants == {"direct", "reaction", "buttons"}
\* what CompetitionInformation!B1 is set to
ModeValues == {"TRUE", "false"}

RECURSIVE SeqToSet(_)
SeqToSet(s) == IF s = <<>> THEN {} ELSE {Head(s)} \cup SeqToSet(Tail(s))

Lower(s) ==
    CASE s = "TRUE" -> "true"
      [] s = "Tile" -> "tile"
      [] s = "Submitted By" -> "submitted by"
      [] s = "Activity" -> "activity"
      [] s = "Amount" -> "amount"
      [] s = "Item" -> "item"
      [] OTHER -> s

----------------------------------------------------------------------------
(* Routing *)

\* is_server_mode answering its default whatever the cell holds
is_server_mode_default == TRUE

is_server_mode == Lower(modeCell) = "true"

\* get_channel_ids_for_submission returning None
NoRoute == [found |-> FALSE]

\* the loop over rows[1:]: the first row of five cells or more whose second
\* cell is the key decides; an int() that raises there ends the loop in the
\* except clause and None is returned
RECURSIVE FirstRow(_, _)
FirstRow(rows, submission_id) ==
    IF rows = <<>> THEN NoRoute
    ELSE IF Len(Head(rows)) >= 5 /\ Head(rows)[2] = submission_id
         THEN IF IsInt(Head(rows)[3]) /\ IsInt(Head(rows)[4]) /\ IsInt(Head(rows)[5])
              THEN [found |-> TRUE, submission_id |-> Head(rows)[2],
                    approval |-> IntOf[Head(rows)[3]],
                    approved |-> IntOf[Head(rows)[4]],
                    denied |-> IntOf[Head(rows)[5]]]
              ELSE NoRoute
         ELSE FirstRow(Tail(rows), submission_id)

RECURSIVE Reverse(_)
Reverse(s) == IF s = <<>> THEN <<>> ELSE Append(Reverse(Tail(s)), Head(s))

\* get_channel_ids_for_submission with the approved and denied cells exchanged
get_channel_ids_swapped(submission_id) ==
    LET r == FirstRow(Tail(team_sheet), submission_id)
    IN  IF r.found THEN [r EXCEPT !.approved = r.denied, !.denied = r.approved] ELSE r

\* get_channel_ids_for_submission where a later row with the key replaces an
\* earlier one
get_channel_ids_last_match(submission_id) ==
    FirstRow(Reverse(Tail(team_sheet)), submission_id)

get_channel_ids_for_submission(submission_id) ==
    FirstRow(Tail(team_sheet), submission_id)

----------------------------------------------------------------------------
(* Embeds and messages *)

Field(n, v) == [name |-> n, value |-> v]

\* Text is a sequence of tokens: [c |-> class, v |-> value].  A creation timestamp
\* ("%Y-%m-%d %H:%M:%S" of the n-th reading of the clock) is one token of class
\* "ts"; decimal digits are class "digits"; blanks are class "space".
Tok(s) == [c |-> "lit", v |-> s]
Space == [c |-> "space", v |-> " "]
TsTok(n) == [c |-> "ts", v |-> n]
DigitsTok(s) == [c |-> "digits", v |-> s]
IsLit(tok, s) == tok.c = "lit" /\ tok.v = s

\* the embed submit posts in the reaction variants (test-noGPT.py 187-193)
ReactionEmbed(user_display, tile_name, activity_name, amount, timestamp) ==
    [title |-> <<"Submission from ", user_display>>,
     fields |-> <<Field("Tile", tile_name), Field("Activity", activity_name),
                  Field("Amount", amount), Field("Submitted By", user_display)>>,
     image |-> ImageUrl,
     footer |-> <<Tok("Submitted at "), TsTok(timestamp)>>]

\* the embed submit posts in tilerace.py (lines 622-626)
TileraceEmbed(user_display, tile_name, image_url, timestamp, submission_lookup_id) ==
    [title |-> <<"Submission from ", user_display>>,
     fields |-> <<Field("Tile", tile_name), Field("Submitted By", user_display)>>,
     image |-> image_url,
     footer |-> <<Tok("Submitted at "), TsTok(timestamp), Space, Tok("*"), Space,
                  Tok("SID"), Space, DigitsTok(submission_lookup_id)>>]

\* a dict with no keys
EmptyDict == [k \in {} |-> None]
Pop(d, key) == [k \in DOMAIN d \ {key} |-> d[k]]

NoMessage == [state |-> "none"]
Posted(ch, embed, view) ==
    [state |-> "live", channel |-> ch, embeds |-> <<embed>>, view |-> view]
Deleted == [state |-> "deleted"]

\* tasks is the bag of events in flight and suspended handlers
Start(t) == tasks (+) SetToBag({t})
Finish(t) == tasks (-) SetToBag({t})
Step(t, u) == (tasks (-) SetToBag({t})) (+) SetToBag({u})
Suspended == BagToSet(tasks)
CanStart == BagCardinality(tasks) < MaxTasks
NextMessageId == CHOOSE m \in Msgs : messages[m] = NoMessage
                                     /\ \A k \in Msgs : k < m => messages[k] # NoMessage

\* a handler that has issued its (last) answer to the user and awaits its delivery
Reply(kind, who, msg, out) ==
    [pc |-> "reply", kind |-> kind, who |-> who, msg |-> msg, out |-> out]
\* the same for /submit: the creation timestamp it has read (0: none yet) and
\* the approval message it has posted (0: none)
SubmitReply(timestamp, msg, out) ==
    [pc |-> "reply", kind |-> "submit", who |-> Submitter, timestamp |-> timestamp,
     msg |-> msg, out |-> out]

----------------------------------------------------------------------------
(* Initial state: the bot has just been started, nothing has been submitted *)

Init ==
    /\ variant \in Variants
    /\ modeCell \in ModeValues
    /\ team_sheet = TeamDetails
    /\ submissions_row1 = SubmissionsHeader
    /\ clock = 0
    /\ ledger = <<>>
    /\ messages = [m \in Msgs |-> NoMessage]
    /\ forwarded = EmptyBag
    /\ submission_message_guild_map = EmptyDict
    /\ api_cost_log = <<>>
    /\ HEALTH = [sheets_ready |-> FALSE, last_error |-> 0]
    /\ handles = {}
    /\ initTask = [pc |-> "not started", attempt |-> 0, wait |-> 0]
    /\ SUBMISSION_HEADER = <<>>
    /\ tile_names = <<>>
    /\ tile_items = <<>>
    /\ prompts = {}
    /\ modals = {}
    /\ APPROVAL_STATE = EmptyDict
    /\ tasks = EmptyBag

ButtonState == <<HEALTH, handles, initTask, SUBMISSION_HEADER, tile_names, tile_items,
                 prompts, modals, APPROVAL_STATE>>
World == <<clock, ledger, messages, forwarded, submission_message_guild_map,
           api_cost_log>>

\* the same for /auto_submit (test-GPT.py)
AutoReply(timestamp, msg, out) ==
    [pc |-> "reply", kind |-> "auto", who |-> Submitter, timestamp |-> timestamp,
     msg |-> msg, out |-> out]

\* a /submit that answers before its defer still holds its arguments
Rejected(req, out) == [req |-> req] @@ SubmitReply(0, 0, out)

\* an operator edits CompetitionInformation!B1
SetMode(value) ==
    /\ modeCell # value
    /\ modeCell' = value
    /\ UNCHANGED <<variant, team_sheet, submissions_row1, World, ButtonState, tasks>>

\* the answer is delivered and the handler returns
Replied(t) ==
    /\ t.pc = "reply" /\ t.kind # "approval"
    /\ tasks' = Finish(t)
    /\ UNCHANGED <<Config, World, ButtonState>>

\* creation timestamps not yet read by a submit that is past its checks
AwaitingTimestamp ==
    LET waiting == {t \in Suspended : t.pc = "deferred" /\ t.kind \in {"submit", "auto"}}
    IN  BagCardinality([t \in waiting |-> tasks[t]])

----------------------------------------------------------------------------
(* First generation: /submit (test.py 66-136) *)

\* lines 81-110: the checks before the defer, in their order
DirectSubmitChecks(tile_name, activity_name, amount, image) ==
    IF tile_name \notin DOMAIN tile_activities
    THEN [ok |-> FALSE, out |-> "invalid tile"]
    ELSE IF activity_name \notin SeqToSet(tile_activities[tile_name])
    THEN [ok |-> FALSE, out |-> "invalid activity"]
    ELSE IF amount <= 0
    THEN [ok |-> FALSE, out |-> "amount must be greater than 0"]
    ELSE IF image = None
    THEN [ok |-> FALSE, out |-> "must attach an image"]
    ELSE [ok |-> TRUE]

\* lines 81-112: the request arrives, is checked, and is answered or deferred
DirectSubmit(guild, channel, tile_name, activity_name, amount, image) ==
    /\ variant = "direct"
    /\ CanStart
    /\ clock + AwaitingTimestamp < MaxSubmits
    /\ LET v == DirectSubmitChecks(tile_name, activity_name, amount, image)
           req == [guild |-> guild, channel |-> channel, tile_name |-> tile_name,
                   activity_name |-> activity_name, amount |-> amount, image |-> image]
       IN  IF v.ok
           THEN tasks' = Start([pc |-> "deferred", kind |-> "submit", req |-> req])
           ELSE tasks' = Start(Rejected(req, v.out))
    /\ UNCHANGED <<Config, World, ButtonState>>

\* lines 114-136: timestamp, ledger append (the origin of a request without a
\* guild is written as "DM"), answer issued
DirectSubmitRecord(t, appendOk) ==
    /\ variant = "direct"
    /\ t.pc = "deferred" /\ t.kind = "submit"
    /\ clock' = clock + 1
    /\ LET guild_id == IF t.req.guild # NoGuild THEN IdStr[t.req.guild] ELSE "DM"
       IN  ledger' = IF appendOk
                     THEN Append(ledger, << <<TsTok(clock + 1)>>, guild_id, Submitter,
                                            t.req.tile_name, t.req.activity_name,
                                            t.req.amount, t.req.image >>)
                     ELSE ledger
    /\ tasks' = Step(t, SubmitReply(clock + 1, 0,
                         IF appendOk THEN "Submission complete"
                                     ELSE "Failed to record submission"))
    /\ UNCHANGED <<Config, api_cost_log, messages, forwarded, submission_message_guild_map,
                   ButtonState>>

----------------------------------------------------------------------------
(* Reaction variant: /submit (test-noGPT.py 112-202, test-GPT.py 325-404) *)

\* SubmitChecks with the exact-channel test made in server mode too
SubmitChecksChannelAlways(guild, channel, tile_name, activity_name, amount, image) ==
    IF guild = NoGuild THEN [ok |-> FALSE, out |-> "not in DMs"]
    ELSE LET submission_lookup_id ==
                 IF is_server_mode THEN IdStr[guild] ELSE IdStr[channel]
             channel_info == get_channel_ids_for_submission(submission_lookup_id)
         IN  IF ~channel_info.found
             THEN [ok |-> FALSE, out |-> "not registered"]
             ELSE IF channel # IntOf[channel_info.submission_id]
             THEN [ok |-> FALSE, out |-> "designated team channel only"]
             ELSE IF tile_name \notin DOMAIN tile_activities
             THEN [ok |-> FALSE, out |-> "invalid tile"]
             ELSE IF activity_name \notin SeqToSet(tile_activities[tile_name])
             THEN [ok |-> FALSE, out |-> "invalid activity"]
             ELSE IF amount <= 0
             THEN [ok |-> FALSE, out |-> "amount must be greater than 0"]
             ELSE IF image = None
             THEN [ok |-> FALSE, out |-> "must attach an image"]
             ELSE [ok |-> TRUE, submission_lookup_id |-> submission_lookup_id,
                   channel_info |-> channel_info]

\* SubmitChecks with the image test before the amount test
SubmitChecksImageFirst(guild, channel, tile_name, activity_name, amount, image) ==
    IF guild = NoGuild THEN [ok |-> FALSE, out |-> "not in DMs"]
    ELSE LET submission_lookup_id ==
                 IF is_server_mode THEN IdStr[guild] ELSE IdStr[channel]
             channel_info == get_channel_ids_for_submission(submission_lookup_id)
         IN  IF ~channel_info.found
             THEN [ok |-> FALSE, out |-> "not registered"]
             ELSE IF ~is_server_mode /\ channel # IntOf[channel_info.submission_id]
             THEN [ok |-> FALSE, out |-> "designated team channel only"]
             ELSE IF tile_name \notin DOMAIN tile_activities
             THEN [ok |-> FALSE, out |-> "invalid tile"]
             ELSE IF activity_name \notin SeqToSet(tile_activities[tile_name])
             THEN [ok |-> FALSE, out |-> "invalid activity"]
             ELSE IF image = None
             THEN [ok |-> FALSE, out |-> "must attach an image"]
             ELSE IF amount <= 0
             THEN [ok |-> FALSE, out |-> "amount must be greater than 0"]
             ELSE [ok |-> TRUE, submission_lookup_id |-> submission_lookup_id,
                   channel_info |-> channel_info]

\* lines 119-163: the checks before the defer, in their order
SubmitChecks(guild, channel, tile_name, activity_name, amount, image) ==
    IF guild = NoGuild THEN [ok |-> FALSE, out |-> "not in DMs"]
    ELSE LET submission_lookup_id ==
                 IF is_server_mode THEN IdStr[guild] ELSE IdStr[channel]
             channel_info == get_channel_ids_for_submission(submission_lookup_id)
         IN  IF ~channel_info.found
             THEN [ok |-> FALSE, out |-> "not registered"]
             ELSE IF ~is_server_mode /\ channel # IntOf[channel_info.submission_id]
             THEN [ok |-> FALSE, out |-> "designated team channel only"]
             ELSE IF tile_name \notin DOMAIN tile_activities
             THEN [ok |-> FALSE, out |-> "invalid tile"]
             ELSE IF activity_name \notin SeqToSet(tile_activities[tile_name])
             THEN [ok |-> FALSE, out |-> "invalid activity"]
             ELSE IF amount <= 0
             THEN [ok |-> FALSE, out |-> "amount must be greater than 0"]
             ELSE IF image = None
             THEN [ok |-> FALSE, out |-> "must attach an image"]
             ELSE [ok |-> TRUE, submission_lookup_id |-> submission_lookup_id,
                   channel_info |-> channel_info]

\* lines 119-165: the request arrives, is checked, and is answered or deferred
Submit(guild, channel, tile_name, activity_name, amount, image) ==
    /\ variant = "reaction"
    /\ CanStart
    /\ clock + AwaitingTimestamp < MaxSubmits
    /\ LET v == SubmitChecks(guild, channel, tile_name, activity_name, amount, image)
           req == [guild |-> guild, channel |-> channel, tile_name |-> tile_name,
                   activity_name |-> activity_name, amount |-> amount, image |-> image]
       IN  IF v.ok
           THEN /\ tasks' = Start([pc |-> "deferred", kind |-> "submit", req |-> req,
                        submission_lookup_id |-> v.submission_lookup_id,
                        channel_info |-> v.channel_info,
                        tile_name |-> tile_name, activity_name |-> activity_name,
                        amount |-> amount, image |-> image])
           ELSE tasks' = Start(Rejected(req, v.out))
    /\ UNCHANGED <<Config, World, ButtonState>>

\* the row of lines 173-175
CreationRow(t, timestamp) ==
    << <<TsTok(timestamp)>>, t.submission_lookup_id, Submitter, t.tile_name,
       t.activity_name, t.amount, t.image >>

\* SubmitAfterAppend without the return of lines 176-178: a failed append is
\* reported nowhere and the post goes ahead
SubmitAfterAppendGoesOn(t, timestamp, appendOk, channelFound) ==
    IF ~channelFound
    THEN SubmitReply(timestamp, 0, "Approval channel not found")
    ELSE [pc |-> "posting", kind |-> "submit", timestamp |-> timestamp,
          submission_lookup_id |-> t.submission_lookup_id,
          channel |-> t.channel_info.approval,
          embed |-> ReactionEmbed(Submitter, t.tile_name, t.activity_name,
                                  t.amount, timestamp)]

\* lines 171-195 after the append was tried: the handler reports the failure
\* and returns, or reports the missing approval channel and returns, or issues
\* the post
SubmitAfterAppend(t, timestamp, appendOk, channelFound) ==
    IF ~appendOk
    THEN SubmitReply(timestamp, 0, "Failed to record submission")
    ELSE IF ~channelFound
    THEN SubmitReply(timestamp, 0, "Approval channel not found")
    ELSE [pc |-> "posting", kind |-> "submit", timestamp |-> timestamp,
          submission_lookup_id |-> t.submission_lookup_id,
          channel |-> t.channel_info.approval,
          embed |-> ReactionEmbed(Submitter, t.tile_name, t.activity_name,
                                  t.amount, timestamp)]

\* lines 167-195: timestamp, ledger append, approval channel lookup, post issued
SubmitRecord(t, appendOk, channelFound) ==
    /\ variant = "reaction"
    /\ t.pc = "deferred" /\ t.kind = "submit"
    /\ clock' = clock + 1
    /\ ledger' = IF appendOk THEN Append(ledger, CreationRow(t, clock + 1)) ELSE ledger
    /\ tasks' = Step(t, SubmitAfterAppend(t, clock + 1, appendOk, channelFound))
    /\ UNCHANGED <<Config, api_cost_log, messages, forwarded,
                   submission_message_guild_map, ButtonState>>

\* line 195 takes effect: the approval message exists; line 196 is issued.
\* A failed call raises out of the handler.
SubmitPosted(t, sendOk) ==
    /\ variant = "reaction"
    /\ t.pc = "posting"
    /\ IF sendOk
       THEN /\ messages' = [messages EXCEPT ![NextMessageId] =
                                Posted(t.channel, t.embed, FALSE)]
            /\ tasks' = Step(t, [pc |-> "seeding", kind |-> t.kind, seeded |-> 0,
                                 timestamp |-> t.timestamp,
                                 submission_lookup_id |-> t.submission_lookup_id,
                                 approval_message |-> NextMessageId])
       ELSE /\ tasks' = Finish(t)
            /\ UNCHANGED messages
    /\ UNCHANGED <<Config, api_cost_log, clock, ledger, forwarded,
                   submission_message_guild_map, ButtonState>>

\* ReactionEntry without the test of lines 206-207: the bot's own reactions
\* are handled like anybody's
ReactionEntryWithoutBotTest(user, message_id, channelFound) ==
    IF message_id \notin DOMAIN submission_message_guild_map THEN "return"
    ELSE IF ~get_channel_ids_for_submission(
                 submission_message_guild_map[message_id]).found THEN "return"
    ELSE IF ~channelFound THEN "return"
    ELSE "fetch"

\* on_raw_reaction_add, lines 205-219: what the handler does with an event
\* before its first await
ReactionEntry(user, message_id, channelFound) ==
    IF user = BOT THEN "return"
    ELSE IF message_id \notin DOMAIN submission_message_guild_map THEN "return"
    ELSE IF ~get_channel_ids_for_submission(
                 submission_message_guild_map[message_id]).found THEN "return"
    ELSE IF ~channelFound THEN "return"
    ELSE "fetch"

\* StoreMapping without line 200's assignment
StoreMappingSkipped(message_id, submission_lookup_id) ==
    submission_message_guild_map

\* line 200
StoreMapping(message_id, submission_lookup_id) ==
    (message_id :> submission_lookup_id) @@ submission_message_guild_map

\* lines 196-202: one add_reaction takes effect (the bot's own reaction event
\* is dispatched and on_raw_reaction_add returns from it at once); after the
\* second the mapping is stored and the answer to the submitter is issued
SubmitSeeded(t, reactionOk) ==
    /\ variant = "reaction"
    /\ t.pc = "seeding"
    /\ IF ~reactionOk
       THEN /\ tasks' = Finish(t)
            /\ UNCHANGED submission_message_guild_map
       ELSE /\ ReactionEntry(BOT, t.approval_message, TRUE) = "return"
            /\ IF t.seeded = 0
               THEN /\ tasks' = Step(t, [t EXCEPT !.seeded = 1])
                    /\ UNCHANGED submission_message_guild_map
               ELSE /\ submission_message_guild_map' =
                           StoreMapping(t.approval_message, t.submission_lookup_id)
                    /\ tasks' = Step(t,
                           IF t.kind = "auto"
                           THEN AutoReply(t.timestamp, t.approval_message,
                                          "Auto-matched and sent for approval")
                           ELSE SubmitReply(t.timestamp, t.approval_message,
                                            "Submission received and sent for approval"))
    /\ UNCHANGED <<Config, api_cost_log, clock, ledger, messages, forwarded, ButtonState>>

----------------------------------------------------------------------------
(* The matcher and the name test of test-GPT.py (181-258).  A text is the
   sequence of its characters; Chars gives the characters of the texts that
   occur as inputs. *)

Chars(s) ==
    CASE s = "" -> <<>>
      [] s = "0" -> <<"0">>
      [] s = "1" -> <<"1">>
      [] s = "x" -> <<"x">>
      [] s = "-1" -> <<"-", "1">>
      [] s = "Zulrah" -> <<"Z", "u", "l", "r", "a", "h">>
      [] s = "Tanzanite Fang" ->
             <<"T", "a", "n", "z", "a", "n", "i", "t", "e", " ", "F", "a", "n", "g">>
      [] s = "Magic Fang" -> <<"M", "a", "g", "i", "c", " ", "F", "a", "n", "g">>
      [] s = "Vorkath" -> <<"V", "o", "r", "k", "a", "t", "h">>
      [] s = "Head" -> <<"H", "e", "a", "d">>
      [] s = "tanzanite fang" ->
             <<"t", "a", "n", "z", "a", "n", "i", "t", "e", " ", "f", "a", "n", "g">>
      [] s = "zulrah" -> <<"z", "u", "l", "r", "a", "h">>
      [] s = "Zulrah!" -> <<"Z", "u", "l", "r", "a", "h", "!">>
      [] s = "vorkath" -> <<"v", "o", "r", "k", "a", "t", "h">>
      [] s = "zulr" -> <<"z", "u", "l", "r">>
      [] s = "dwh" -> <<"d", "w", "h">>
      [] s = "Zezima" -> <<"Z", "e", "z", "i", "m", "a">>
      [] s = "zezima" -> <<"z", "e", "z", "i", "m", "a">>
      [] s = "Zezimaa" -> <<"Z", "e", "z", "i", "m", "a", "a">>
      [] s = "Ze_zima" -> <<"Z", "e", "_", "z", "i", "m", "a">>
      [] s = "Woox" -> <<"W", "o", "o", "x">>
      [] s = "!!!" -> <<"!", "!", "!">>
      [] s = "Tile" -> <<"T", "i", "l", "e">>
      [] s = "Activity" -> <<"A", "c", "t", "i", "v", "i", "t", "y">>
      [] s = "Items" -> <<"I", "t", "e", "m", "s">>
      [] s = " Zulrah " ->
             <<" ", "Z", "u", "l", "r", "a", "h", " ">>
      [] s = "Vorkath " ->
             <<"V", "o", "r", "k", "a", "t", "h", " ">>
      [] s = "tanzanite fang " ->
             <<"t", "a", "n", "z", "a", "n", "i", "t", "e", " ", "f", "a", "n",
               "g", " ">>
      [] s = "Fang, fang ;Scale" ->
             <<"F", "a", "n", "g", ",", " ", "f", "a", "n", "g", " ", ";", "S",
               "c", "a", "l", "e">>
      [] s = "Scale\nFang" ->
             <<"S", "c", "a", "l", "e", "\n", "F", "a", "n", "g">>
      [] s = " , Scale" ->
             <<" ", ",", " ", "S", "c", "a", "l", "e">>
      [] s = "sam" -> <<"s", "a", "m">>
      [] s = "Sam" -> <<"S", "a", "m">>
      [] s = "UNKNOWN" -> <<"U", "N", "K", "N", "O", "W", "N">>
      [] s = "unknown" -> <<"u", "n", "k", "n", "o", "w", "n">>
      [] s = "429" -> <<"4", "2", "9">>
      [] s = "quota" -> <<"q", "u", "o", "t", "a">>
      [] s = "insufficient_quota" ->
             <<"i", "n", "s", "u", "f", "f", "i", "c", "i",
               "e", "n", "t", "_", "q", "u", "o", "t", "a">>
      [] s = "429 insufficient_quota" ->
             <<"4", "2", "9", " ", "i", "n", "s", "u", "f", "f", "i",
               "c", "i", "e", "n", "t", "_", "q", "u", "o", "t", "a">>
      [] s = "Quota exceeded" ->
             <<"Q", "u", "o", "t", "a", " ", "e",
               "x", "c", "e", "e", "d", "e", "d">>
      [] s = "Rate limit 429" ->
             <<"R", "a", "t", "e", " ", "l", "i",
               "m", "i", "t", " ", "4", "2", "9">>
      [] s = "Timeout" -> <<"T", "i", "m", "e", "o", "u", "t">>

Letters == <<"a", "b", "c", "d", "e", "f", "g", "h", "i", "j", "k", "l", "m",
             "n", "o", "p", "q", "r", "s", "t", "u", "v", "w", "x", "y", "z">>
Capitals == <<"A", "B", "C", "D", "E", "F", "G", "H", "I", "J", "K", "L", "M",
              "N", "O", "P", "Q", "R", "S", "T", "U", "V", "W", "X", "Y", "Z">>
Digits == <<"0", "1", "2", "3", "4", "5", "6", "7", "8", "9">>
\* [a-z0-9] in the order of their code points
CodePoints == Digits \o Letters
IndexOf(seq, c) == CHOOSE i \in 1..Len(seq) : seq[i] = c

\* str.lower()
lower(s) == [i \in 1..Len(s) |->
                IF s[i] \in SeqToSet(Capitals) THEN Letters[IndexOf(Capitals, s[i])]
                ELSE s[i]]
IsAlnumOrSpace(c) == c \in SeqToSet(CodePoints) \/ c = " "

\* re.sub(r"\s+", " ", s)
RECURSIVE Squeeze(_)
Squeeze(s) ==
    IF Len(s) < 2 THEN s
    ELSE IF s[1] = " " /\ s[2] = " " THEN Squeeze(Tail(s))
    ELSE <<s[1]>> \o Squeeze(Tail(s))
\* str.strip() of a text whose blanks are single
Strip(s) ==
    LET a == IF s # <<>> /\ Head(s) = " " THEN Tail(s) ELSE s
    IN  IF a # <<>> /\ a[Len(a)] = " " THEN SubSeq(a, 1, Len(a) - 1) ELSE a

\* _norm, lines 190-194
norm(s) ==
    LET lowered == lower(s)
        spaced == [i \in 1..Len(s) |->
                      IF IsAlnumOrSpace(lowered[i]) THEN lowered[i] ELSE " "]
    IN  Strip(Squeeze(spaced))

\* _norm_name_for_compare leaving the name as it is
norm_name_unchanged(s) == s

\* _norm_name_for_compare, lines 239-245
norm_name_for_compare(s) ==
    LET lowered == lower(s)
        spaced == [i \in 1..Len(s) |-> IF lowered[i] = "_" THEN " " ELSE lowered[i]]
    IN  Strip(Squeeze(SelectSeq(spaced, IsAlnumOrSpace)))

\* str.split()
RECURSIVE Split(_)
Split(s) ==
    IF s = <<>> THEN <<>>
    ELSE LET k == IF " " \in SeqToSet(s) THEN IndexOf(s, " ") ELSE Len(s) + 1
         IN  IF k = 1 THEN Split(Tail(s))
             ELSE <<SubSeq(s, 1, k - 1)>> \o Split(SubSeq(s, k + 1, Len(s)))

\* a < b for texts of [a-z0-9]
RECURSIVE Less(_, _)
Less(a, b) ==
    IF b = <<>> THEN FALSE
    ELSE IF a = <<>> THEN TRUE
    ELSE IF Head(a) = Head(b) THEN Less(Tail(a), Tail(b))
    ELSE IndexOf(CodePoints, Head(a)) < IndexOf(CodePoints, Head(b))

\* " ".join(sorted(tokens))
RECURSIVE JoinSorted(_)
JoinSorted(tokens) ==
    IF tokens = {} THEN <<>>
    ELSE LET first == CHOOSE x \in tokens : \A y \in tokens \ {x} : Less(x, y)
         IN  IF tokens = {first} THEN first
             ELSE first \o <<" ">> \o JoinSorted(tokens \ {first})

\* the length of the longest common subsequence, row by row: row[j + 1] is
\* that of the first i characters of a and the first j of b
Largest(S) == CHOOSE x \in S : \A y \in S : y <= x
RECURSIVE LcsRow(_, _, _)
LcsRow(a, b, i) ==
    IF i = 0 THEN [j \in 1..(Len(b) + 1) |-> 0] \o <<>>
    ELSE LET prev == LcsRow(a, b, i - 1)
         IN  [j \in 1..(Len(b) + 1) |->
                 Largest({prev[j]} \cup {prev[k] + 1 : k \in {k \in 1..(j - 1) :
                                                                b[k] = a[i]}})] \o <<>>
LCS(a, b) == LcsRow(a, b, Len(a))[Len(b) + 1]

\* rapidfuzz: insertions and deletions that turn a into b
indel_distance(a, b) == Len(a) + Len(b) - 2 * LCS(a, b)

\* a score is the fraction n / d of 0..100
Whole(k) == [n |-> k, d |-> 1]
AtLeast(x, y) == x.n * y.d >= y.n * x.d
Above(x, y) == x.n * y.d > y.n * x.d
Highest(x, y) == IF AtLeast(x, y) THEN x ELSE y
\* rapidfuzz: 100 - 100 * dist / lensum
norm_distance(dist, lensum) ==
    IF lensum = 0 THEN Whole(100) ELSE [n |-> 100 * (lensum - dist), d |-> lensum]

\* fuzz.ratio (line 258)
ratio(a, b) == norm_distance(indel_distance(a, b), Len(a) + Len(b))

\* fuzz.token_set_ratio (line 223)
token_set_ratio(s1, s2) ==
    LET tokens_a == SeqToSet(Split(s1))
        tokens_b == SeqToSet(Split(s2))
        intersect == tokens_a \cap tokens_b
        diff_ab == tokens_a \ tokens_b
        diff_ba == tokens_b \ tokens_a
        diff_ab_joined == JoinSorted(diff_ab)
        diff_ba_joined == JoinSorted(diff_ba)
        ab_len == Len(diff_ab_joined)
        ba_len == Len(diff_ba_joined)
        sect_len == Len(JoinSorted(intersect))
        sep == IF sect_len # 0 THEN 1 ELSE 0
        sect_ab_len == sect_len + sep + ab_len
        sect_ba_len == sect_len + sep + ba_len
        result == norm_distance(indel_distance(diff_ab_joined, diff_ba_joined),
                                sect_ab_len + sect_ba_len)
        sect_ab_ratio == norm_distance(sep + ab_len, sect_len + sect_ab_len)
        sect_ba_ratio == norm_distance(sep + ba_len, sect_len + sect_ba_len)
    IN  IF tokens_a = {} \/ tokens_b = {} THEN Whole(0)
        ELSE IF intersect # {} /\ (diff_ab = {} \/ diff_ba = {}) THEN Whole(100)
        ELSE IF sect_len = 0 THEN result
        ELSE Highest(Highest(result, sect_ab_ratio), sect_ba_ratio)

\* ALIAS_HINTS, lines 181-188
ALIAS_HINTS ==
    (<<"t", "o", "a">> :> <<"t", "o", "m", "b", "s", " ", "o", "f", " ",
                            "a", "m", "a", "s", "c", "u", "t">>) @@
    (<<"c", "o", "x">> :> <<"c", "h", "a", "m", "b", "e", "r", "s", " ", "o", "f", " ",
                            "x", "e", "r", "i", "c">>) @@
    (<<"t", "o", "b">> :> <<"t", "h", "e", "a", "t", "r", "e", " ", "o", "f", " ",
                            "b", "l", "o", "o", "d">>) @@
    (<<"z", "c", "b">> :> <<"z", "a", "r", "y", "t", "e", " ",
                            "c", "r", "o", "s", "s", "b", "o", "w">>) @@
    (<<"d", "w", "h">> :> <<"d", "r", "a", "g", "o", "n", " ",
                            "w", "a", "r", "h", "a", "m", "m", "e", "r">>) @@
    (<<"s", "r", "a">> :> <<"s", "o", "u", "l", "r", "e", "a", "p", "e", "r", " ",
                            "a", "x", "e">>)

\* key in n
Contains(n, key) ==
    \E i \in 1..(Len(n) - Len(key) + 1) : SubSeq(n, i, i + Len(key) - 1) = key

\* TilesActivities in sheet order: the dict of tile -> activities keeps it
TaxonomyZulrah == << [tile |-> "Zulrah", acts |-> <<"Tanzanite Fang", "Magic Fang">>] >>
TaxonomyTwoTiles == << [tile |-> "Zulrah", acts |-> <<"Tanzanite Fang", "Magic Fang">>],
                       [tile |-> "Vorkath", acts |-> <<"Head">>] >>
TaxonomyBareTile == << [tile |-> "Vorkath", acts |-> <<>>],
                       [tile |-> "Zulrah", acts |-> <<"Tanzanite Fang">>] >>
\* one tile whose activities are ways of writing its name
TaxonomyManyNames == << [tile |-> "Zulrah",
                         acts |-> <<"zulrah", "Zulrah!", "zulr", " Zulrah ", "Zulrah">>] >>
Taxonomies == {TaxonomyZulrah, TaxonomyTwoTiles, TaxonomyBareTile, TaxonomyManyNames}

\* lines 201-205: the tile names and the activities, each with its tile
RECURSIVE Candidates(_)
Candidates(taxonomy) ==
    IF taxonomy = <<>> THEN <<>>
    ELSE LET tile == Head(taxonomy).tile
             acts == Head(taxonomy).acts
         IN  <<[label |-> norm(Chars(tile)), tile |-> tile, act |-> None]>>
             \o [i \in 1..Len(acts) |->
                    [label |-> norm(Chars(acts[i])), tile |-> tile, act |-> acts[i]]]
             \o Candidates(Tail(taxonomy))

\* lines 207-217: the detected texts, normalised, with their aliases: a set
expanded(detected_items) ==
    LET ns == {norm(Chars(detected_items[i])) : i \in 1..Len(detected_items)} \ {<<>>}
    IN  ns \cup {norm(ALIAS_HINTS[key]) : key \in {k \in DOMAIN ALIAS_HINTS :
                                                      \E n \in ns : Contains(n, k)}}

\* the orders in which a set can be iterated
Orders(S) == {s \in [1..Cardinality(S) -> S] :
                 \A i, j \in 1..Cardinality(S) : s[i] = s[j] => i = j}

\* lines 221-223: the scored pairs in the order the two loops visit them
RECURSIVE Scored(_, _)
Scored(order, candidates) ==
    IF order = <<>> THEN <<>>
    ELSE [i \in 1..Len(candidates) |->
             [score |-> token_set_ratio(Head(order), candidates[i].label),
              det |-> Head(order), cand_label |-> candidates[i].label,
              tile |-> candidates[i].tile, act |-> candidates[i].act]]
         \o Scored(Tail(order), candidates)

NoBest == [found |-> FALSE]
\* lines 226-228 with > for >=: a pair at the threshold is no candidate
RECURSIVE BestAboveThreshold(_, _, _)
BestAboveThreshold(rows, score_threshold, best) ==
    IF rows = <<>> THEN best
    ELSE LET r == Head(rows)
         IN  BestAboveThreshold(Tail(rows), score_threshold,
                 IF Above(r.score, Whole(score_threshold))
                    /\ (~best.found \/ Above(r.score, best.score))
                 THEN [found |-> TRUE] @@ r ELSE best)

\* lines 219-228: best is replaced by a pair at or above the threshold that
\* scores higher
RECURSIVE Best(_, _, _)
Best(rows, score_threshold, best) ==
    IF rows = <<>> THEN best
    ELSE LET r == Head(rows)
         IN  Best(Tail(rows), score_threshold,
                  IF AtLeast(r.score, Whole(score_threshold))
                     /\ (~best.found \/ Above(r.score, best.score))
                  THEN [found |-> TRUE] @@ r ELSE best)

\* list.sort(reverse=True, key=score): stable, highest first
RECURSIVE SortedByScore(_, _)
SortedByScore(rows, acc) ==
    IF rows = <<>> THEN acc
    ELSE LET r == Head(rows)
             k == Cardinality({i \in 1..Len(acc) : AtLeast(acc[i].score, r.score)})
         IN  SortedByScore(Tail(rows),
                           SubSeq(acc, 1, k) \o <<r>> \o SubSeq(acc, k + 1, Len(acc)))

\* lines 224-225 and 230-231: the pairs scoring 60 or more, highest first, ten at most
debug_rows(rows) ==
    LET sorted == SortedByScore(SelectSeq(rows, LAMBDA r : AtLeast(r.score, Whole(60))),
                                <<>>)
    IN  SubSeq(sorted, 1, IF Len(sorted) > 10 THEN 10 ELSE Len(sorted))

\* tile_activities[tile] read from the first tile of the dict
ActsOfFirstTile(taxonomy, tile) == taxonomy[1].acts

\* tile_activities[tile], lines 234-235
ActsOf(taxonomy, tile) ==
    taxonomy[CHOOSE i \in 1..Len(taxonomy) : taxonomy[i].tile = tile].acts

\* best_match_tile_activity without the first activity of the tile as the
\* default of line 235
best_match_without_default(detected_items, taxonomy, score_threshold, order) ==
    LET rows == Scored(order, Candidates(taxonomy))
        best == Best(rows, score_threshold, NoBest)
    IN  IF best.found
        THEN [tile |-> best.tile, act |-> best.act, debug_rows |-> debug_rows(rows)]
        ELSE [tile |-> None, act |-> None, debug_rows |-> debug_rows(rows)]

\* best_match_tile_activity with no debug rows returned when nothing matched
best_match_dropping_debug(detected_items, taxonomy, score_threshold, order) ==
    LET rows == Scored(order, Candidates(taxonomy))
        best == Best(rows, score_threshold, NoBest)
    IN  IF best.found
        THEN [tile |-> best.tile,
              act |-> IF best.act # None THEN best.act
                      ELSE IF ActsOf(taxonomy, best.tile) # <<>>
                      THEN ActsOf(taxonomy, best.tile)[1] ELSE None,
              debug_rows |-> debug_rows(rows)]
        ELSE [tile |-> None, act |-> None, debug_rows |-> <<>>]

\* best_match_tile_activity, lines 196-237; order: how the set expanded is iterated
best_match_tile_activity(detected_items, taxonomy, score_threshold, order) ==
    LET rows == Scored(order, Candidates(taxonomy))
        best == Best(rows, score_threshold, NoBest)
    IN  IF best.found
        THEN [tile |-> best.tile,
              act |-> IF best.act # None THEN best.act
                      ELSE IF ActsOf(taxonomy, best.tile) # <<>>
                      THEN ActsOf(taxonomy, best.tile)[1] ELSE None,
              debug_rows |-> debug_rows(rows)]
        ELSE [tile |-> None, act |-> None, debug_rows |-> debug_rows(rows)]

\* names_match with the test of line 254 left out
names_match_without_empty_test(rsn, discord_name, threshold) ==
    LET a == norm_name_for_compare(Chars(rsn))
        b == norm_name_for_compare(Chars(discord_name))
    IN  IF a = b THEN TRUE
        ELSE AtLeast(ratio(a, b), Whole(threshold))

\* names_match, lines 247-258
names_match(rsn, discord_name, threshold) ==
    LET a == norm_name_for_compare(Chars(rsn))
        b == norm_name_for_compare(Chars(discord_name))
    IN  IF a = <<>> \/ b = <<>> THEN FALSE
        ELSE IF a = b THEN TRUE
        ELSE AtLeast(ratio(a, b), Whole(threshold))

----------------------------------------------------------------------------
(* Reaction variant: /auto_submit (test-GPT.py 420-556) *)

\* an attachment that shows no item at all
BlankUrl == "blank"
\* the messages of the errors the API call of lines 121-133 meets
ApiErrors == {"429 insufficient_quota", "Quota exceeded", "Rate limit 429", "Timeout"}
\* the player names the model reads in a screenshot
RsnInputs == {"UNKNOWN", "unknown", "Sam", "Woox"}
\* what the image analysis meets: the download raises or answers another
\* status than 200, the API call raises, or the model answers with the
\* items it sees (none, none of the taxonomy, some of the taxonomy) and a name
OracleAnswers(image) ==
    {[kind |-> "download raises"], [kind |-> "download status"]}
    \cup {[kind |-> "error", msg |-> m] : m \in ApiErrors}
    \cup {[kind |-> "ok", items |-> i, rsn |-> r] :
             i \in IF image = BlankUrl THEN {"none"} ELSE {"none", "unlisted", "listed"},
             r \in RsnInputs}

\* the answers met where /auto_submit is not what is looked at
MainAnswers == {[kind |-> "download raises"],
                [kind |-> "ok", items |-> "none", rsn |-> "UNKNOWN"],
                [kind |-> "ok", items |-> "listed", rsn |-> "Sam"]}

\* str.upper()
upper(s) == [i \in 1..Len(s) |->
                IF s[i] \in SeqToSet(Letters) THEN Capitals[IndexOf(Letters, s[i])]
                ELSE s[i]]

NothingDetected == [raised |-> None, detected_items |-> "none", rsn |-> "UNKNOWN"]

\* analyze_image_with_openai with every error of the API call answered as
\* nothing detected
analyze_image_swallowing_errors(answer) ==
    CASE answer.kind = "download raises" -> [raised |-> "ClientError"]
      [] answer.kind = "download status" -> NothingDetected
      [] answer.kind = "error" -> NothingDetected
      [] answer.kind = "ok" ->
             [raised |-> None, detected_items |-> answer.items, rsn |-> answer.rsn]

\* analyze_image_with_openai, lines 90-178: what it returns or raises
analyze_image_with_openai(answer) ==
    CASE answer.kind = "download raises" -> [raised |-> "ClientError"]
      [] answer.kind = "download status" -> NothingDetected
      [] answer.kind = "error" ->
             LET msg == lower(Chars(answer.msg))
             IN  IF \/ Contains(msg, Chars("insufficient_quota"))
                    \/ Contains(msg, Chars("429"))
                    \/ Contains(msg, Chars("quota"))
                 THEN [raised |-> "OPENAI_QUOTA"]
                 ELSE NothingDetected
      [] answer.kind = "ok" ->
             [raised |-> None, detected_items |-> answer.items, rsn |-> answer.rsn]

\* line 474: rsn and rsn.upper() != "UNKNOWN"
rsn_is_known(rsn) == rsn # "" /\ upper(Chars(rsn)) # Chars("UNKNOWN")

\* lines 454-500 without the filter of lines 472-485
AutoResultWithoutNameFilter(answer, discord_name) ==
    LET a == analyze_image_with_openai(answer)
    IN  IF a.raised = "OPENAI_QUOTA" THEN "quota"
        ELSE IF a.raised # None THEN "raise"
        ELSE IF a.detected_items = "none" THEN "no items"
        ELSE IF a.detected_items = "unlisted" THEN "no match"
        ELSE "matched"

\* lines 454-500: what the handler comes to, the tests in their order
AutoResult(answer, discord_name) ==
    LET a == analyze_image_with_openai(answer)
    IN  IF a.raised = "OPENAI_QUOTA" THEN "quota"
        ELSE IF a.raised # None THEN "raise"
        ELSE IF a.detected_items = "none" THEN "no items"
        ELSE IF ~rsn_is_known(a.rsn) THEN "rsn unknown"
        ELSE IF ~names_match(a.rsn, discord_name, 90) THEN "rsn mismatch"
        ELSE IF a.detected_items = "unlisted" THEN "no match"
        ELSE "matched"
matched_tile == "Zulrah"
matched_activity == "Tanzanite Fang"

\* lines 420-445: the checks before the defer, in their order
AutoSubmitChecks(guild, channel, amount, image) ==
    IF guild = NoGuild THEN [ok |-> FALSE, out |-> "not in DMs"]
    ELSE LET submission_lookup_id ==
                 IF is_server_mode THEN IdStr[guild] ELSE IdStr[channel]
             channel_info == get_channel_ids_for_submission(submission_lookup_id)
         IN  IF ~channel_info.found
             THEN [ok |-> FALSE, out |-> "not registered"]
             ELSE IF ~is_server_mode /\ channel # IntOf[channel_info.submission_id]
             THEN [ok |-> FALSE, out |-> "designated team channel only"]
             ELSE IF amount <= 0
             THEN [ok |-> FALSE, out |-> "amount must be greater than 0"]
             ELSE IF image = None
             THEN [ok |-> FALSE, out |-> "must attach an image"]
             ELSE [ok |-> TRUE, submission_lookup_id |-> submission_lookup_id,
                   channel_info |-> channel_info]

\* lines 420-447: the request arrives, is checked, and is answered or deferred
AutoSubmit(guild, channel, amount, image) ==
    /\ variant = "reaction"
    /\ CanStart
    /\ clock + AwaitingTimestamp < MaxSubmits
    /\ LET v == AutoSubmitChecks(guild, channel, amount, image)
           req == [guild |-> guild, channel |-> channel, amount |-> amount,
                   image |-> image]
       IN  IF v.ok
           THEN /\ tasks' = Start([pc |-> "deferred", kind |-> "auto", req |-> req,
                        submission_lookup_id |-> v.submission_lookup_id,
                        channel_info |-> v.channel_info,
                        amount |-> amount, image |-> image])
           ELSE tasks' = Start([req |-> req] @@ AutoReply(0, 0, v.out))
    /\ UNCHANGED <<Config, World, ButtonState>>

\* lines 449-455: the timestamp is read and the analysis of the image is issued
AutoSubmitAnalyse(t) ==
    /\ variant = "reaction"
    /\ t.pc = "deferred" /\ t.kind = "auto"
    /\ clock' = clock + 1
    /\ tasks' = Step(t, [pc |-> "analysing", kind |-> "auto", req |-> t.req,
                         timestamp |-> clock + 1,
                         submission_lookup_id |-> t.submission_lookup_id,
                         channel_info |-> t.channel_info,
                         amount |-> t.amount, image |-> t.image])
    /\ UNCHANGED <<Config, api_cost_log, ledger, messages, forwarded,
                   submission_message_guild_map, ButtonState>>

\* what the handler comes to for every answer, the submitter being Submitter
AutoResults ==
    [answer \in OracleAnswers(ImageUrl) \cup OracleAnswers(BlankUrl) |->
        AutoResult(answer, Submitter)]

\* the embed of lines 537-547
AutoEmbed(user_display, tile_name, activity_name, amount, timestamp, rsn) ==
    [title |-> <<"Auto Submission from ", user_display>>,
     fields |-> <<Field("Tile", tile_name), Field("Activity", activity_name),
                  Field("Amount", amount), Field("Submitted By", user_display),
                  Field("Detected Items", "items"), Field("RSN", rsn),
                  Field("Cost (est.)", "cost")>>,
     image |-> ImageUrl,
     footer |-> <<Tok("Submitted at "), TsTok(timestamp)>>]

\* the row of lines 519-528
CostRow(timestamp, user_display, rsn) ==
    << <<TsTok(timestamp)>>, user_display, "MODEL_NAME", 1, "prompt_tokens",
       "completion_tokens", "total_cost", [rsn |-> rsn, detected |-> "items"] >>

\* lines 455-549 after the analysis has answered: what the handler goes on as
AutoAfterAnalysis(t, answer, appendOk, channelFound) ==
    LET result == AutoResults[answer]
    IN  CASE result = "quota" ->
                 AutoReply(t.timestamp, 0, "vision analysis is temporarily unavailable")
          [] result = "no items" ->
                 AutoReply(t.timestamp, 0, "couldn't detect any items")
          [] result = "rsn unknown" ->
                 AutoReply(t.timestamp, 0, "couldn't find a clear RSN")
          [] result = "rsn mismatch" ->
                 AutoReply(t.timestamp, 0, "RSN doesn't match your Discord name")
          [] result = "no match" ->
                 AutoReply(t.timestamp, 0, "Could not auto-match")
          [] result = "matched" ->
                 IF ~appendOk
                 THEN AutoReply(t.timestamp, 0, "Failed to record submission")
                 ELSE IF ~channelFound
                 THEN AutoReply(t.timestamp, 0, "Approval channel not found")
                 ELSE [pc |-> "posting", kind |-> "auto", timestamp |-> t.timestamp,
                       submission_lookup_id |-> t.submission_lookup_id,
                       channel |-> t.channel_info.approval,
                       embed |-> AutoEmbed(Submitter, matched_tile, matched_activity,
                                           t.amount, t.timestamp,
                                           analyze_image_with_openai(answer).rsn)]

\* lines 455-549: the analysis answers or raises; on a match the row is
\* appended, the cost is logged (a failure of that is only printed) and the
\* post is issued
AutoSubmitAnalysed(t, answer, appendOk, costOk, channelFound) ==
    /\ variant = "reaction"
    /\ t.pc = "analysing"
    /\ answer \in OracleAnswers(t.image)
    /\ LET result == AutoResults[answer]
       IN  /\ result # "matched" => appendOk /\ costOk /\ channelFound
           /\ ~appendOk => costOk /\ channelFound
           /\ ledger' = IF result = "matched" /\ appendOk
                        THEN Append(ledger, << <<TsTok(t.timestamp)>>,
                                               t.submission_lookup_id, Submitter,
                                               matched_tile, matched_activity,
                                               t.amount, t.image >>)
                        ELSE ledger
           /\ api_cost_log' =
                  IF result = "matched" /\ appendOk /\ costOk
                  THEN Append(api_cost_log,
                              CostRow(t.timestamp, Submitter,
                                      analyze_image_with_openai(answer).rsn))
                  ELSE api_cost_log
           /\ tasks' = IF result = "raise" THEN Finish(t)
                       ELSE Step(t, AutoAfterAnalysis(t, answer, appendOk, channelFound))
    /\ UNCHANGED <<Config, clock, messages, forwarded, submission_message_guild_map,
                   ButtonState>>

----------------------------------------------------------------------------
(* Reaction variant: on_raw_reaction_add (test-noGPT.py 204-243) *)

Emojis == {"check", "cross", "eyes"}
Reactors == {"ann", "cat"}

\* somebody adds a reaction to an approval message: the event is in flight
React(user, message_id, emoji) ==
    /\ variant = "reaction"
    /\ CanStart
    /\ messages[message_id].state = "live"
    /\ tasks' = Start([pc |-> "event", kind |-> "reaction", who |-> user,
                       msg |-> message_id, emoji |-> emoji])
    /\ UNCHANGED <<Config, World, ButtonState>>

\* lines 205-223: the event is dispatched; the handler returns or issues the fetch
OnRawReactionAdd(t, channelFound) ==
    /\ variant = "reaction"
    /\ t.pc = "event"
    /\ IF ReactionEntry(t.who, t.msg, channelFound) = "return"
       THEN tasks' = Finish(t)
       ELSE tasks' = Step(t, [t EXCEPT !.pc = "fetch"])
    /\ UNCHANGED <<Config, World, ButtonState>>

\* lines 222-240: the fetch answers; the handler returns, or issues the forward,
\* or (destination channel not found) issues the delete
ReactionFetched(t, destFound) ==
    /\ variant = "reaction"
    /\ t.pc = "fetch"
    /\ IF messages[t.msg].state # "live"
       THEN tasks' = Finish(t)                                  \* discord.NotFound
       ELSE IF messages[t.msg].embeds = <<>>
       THEN tasks' = Finish(t)
       ELSE IF t.emoji \notin {"check", "cross"}
       THEN tasks' = Finish(t)
       ELSE LET channel_info == get_channel_ids_for_submission(
                                    submission_message_guild_map[t.msg])
                dest == IF t.emoji = "check" THEN channel_info.approved
                                             ELSE channel_info.denied
            IN  tasks' = Step(t, [pc |-> IF destFound THEN "send" ELSE "delete",
                                  kind |-> "reaction", who |-> t.who, msg |-> t.msg,
                                  emoji |-> t.emoji, dest |-> dest,
                                  embed |-> messages[t.msg].embeds[1]])
    /\ UNCHANGED <<Config, World, ButtonState>>

\* lines 236 / 242: the forward takes effect and the delete is issued; a failed
\* send raises out of the handler
ReactionSent(t, sendOk) ==
    /\ variant = "reaction"
    /\ t.pc = "send"
    /\ IF sendOk
       THEN /\ forwarded' = forwarded (+) SetToBag({[ch |-> t.dest, embed |-> t.embed]})
            /\ tasks' = Step(t, [t EXCEPT !.pc = "delete"])
       ELSE /\ tasks' = Finish(t)
            /\ UNCHANGED forwarded
    /\ UNCHANGED <<Config, api_cost_log, clock, ledger, messages,
                   submission_message_guild_map, ButtonState>>

\* lines 237 / 243: the delete takes effect, or raises because the message is
\* already gone; the handler returns
ReactionDeleted(t) ==
    /\ variant = "reaction"
    /\ t.pc = "delete"
    /\ messages' = [messages EXCEPT ![t.msg] = Deleted]
    /\ tasks' = Finish(t)
    /\ UNCHANGED <<Config, api_cost_log, clock, ledger, forwarded,
                   submission_message_guild_map, ButtonState>>

----------------------------------------------------------------------------
(* Buttons variant (tilerace.py): start-up *)

max_tries == 5

\* the globals of lines 125-127 in the order a pass of lines 132-139 sets them
Handles == <<"gs_client", "spreadsheet", "tiles_activities_sheet", "submission_sheet",
             "team_sheet", "competition_info_sheet", "compiled_messages_sheet">>
\* the globals set by a pass that got through its first n assignments
FirstHandles(n) == {Handles[i] : i \in 1..n}

\* sheets_ready(), lines 162-166
sheets_ready == HEALTH.sheets_ready /\ handles = SeqToSet(Handles)

Min(a, b) == IF a < b THEN a ELSE b

\* on_ready, line 551: the warm-up task is created
OnReady ==
    /\ variant = "buttons"
    /\ initTask.pc = "not started"
    /\ initTask' = [pc |-> "trying", attempt |-> 1, wait |-> 2]
    /\ UNCHANGED <<Config, World, HEALTH, handles, SUBMISSION_HEADER, tile_names,
                   tile_items, prompts, modals, APPROVAL_STATE, tasks>>

\* how many of the globals a pass that raises has set before it raises
RaisedAfter == 0..Len(Handles)

\* the except branch clearing the ready flag
AfterFailedPassNotReady(health, attempt) ==
    [sheets_ready |-> FALSE, last_error |-> attempt]

\* lines 153-155: the error of the pass is recorded
AfterFailedPass(health, attempt) == [health EXCEPT !.last_error = attempt]

\* init_sheets_with_retry, lines 129-158: one pass of the loop body, up to the
\* return or the sleep.  headerOk: row_values(1) of line 145 did not raise; a
\* SUBMISSION_HEADER of <<>> is None.
InitAttempt(ok, headerOk) ==
    /\ variant = "buttons"
    /\ initTask.pc = "trying"
    /\ IF ok
       THEN /\ handles' = SeqToSet(Handles)
            /\ tile_names' = LoadedTileNames
            /\ tile_items' = LoadedTileItems
            /\ SUBMISSION_HEADER' = IF headerOk THEN submissions_row1 ELSE <<>>
            /\ HEALTH' = [sheets_ready |-> TRUE, last_error |-> 0]
            /\ initTask' = [pc |-> "done", attempt |-> 0, wait |-> 0]
       ELSE /\ \E n \in RaisedAfter : handles' = handles \cup FirstHandles(n)
            /\ HEALTH' = AfterFailedPass(HEALTH, initTask.attempt)
            /\ initTask' = IF initTask.attempt = max_tries
                           THEN [pc |-> "done", attempt |-> 0, wait |-> 0]
                           ELSE [initTask EXCEPT !.pc = "sleeping"]
            /\ UNCHANGED <<tile_names, tile_items, SUBMISSION_HEADER>>
    /\ ~ok => headerOk
    /\ UNCHANGED <<Config, World, prompts, modals, APPROVAL_STATE, tasks>>

\* InitWake of a loop that does not count its attempts
InitWakeSameAttempt ==
    /\ variant = "buttons"
    /\ initTask.pc = "sleeping"
    /\ initTask' = [pc |-> "trying", attempt |-> initTask.attempt,
                    wait |-> Min(initTask.wait * 2, 30)]
    /\ UNCHANGED <<Config, World, HEALTH, handles, SUBMISSION_HEADER, tile_names,
                   tile_items, prompts, modals, APPROVAL_STATE, tasks>>

\* lines 159-160 and back to 129: the sleep ends, the wait doubles up to 30
InitWake ==
    /\ variant = "buttons"
    /\ initTask.pc = "sleeping"
    /\ initTask' = [pc |-> "trying", attempt |-> initTask.attempt + 1,
                    wait |-> Min(initTask.wait * 2, 30)]
    /\ UNCHANGED <<Config, World, HEALTH, handles, SUBMISSION_HEADER, tile_names,
                   tile_items, prompts, modals, APPROVAL_STATE, tasks>>

----------------------------------------------------------------------------
(* Buttons variant: /submit (tilerace.py 577-636) *)

\* TileraceSubmitChecks with the readiness test before the guild test
TileraceSubmitChecksReadyFirst(guild, channel, tile_name, image) ==
    IF ~sheets_ready THEN [ok |-> FALSE, out |-> "Setup is still starting"]
    ELSE IF guild = NoGuild THEN [ok |-> FALSE, out |-> "not in DMs"]
    ELSE LET submission_lookup_id ==
                 IF is_server_mode THEN IdStr[guild] ELSE IdStr[channel]
             channel_info == get_channel_ids_for_submission(submission_lookup_id)
         IN  IF ~is_server_mode /\ channel_info.found
                /\ channel # IntOf[channel_info.submission_id]
             THEN [ok |-> FALSE, out |-> "designated team channel only"]
             ELSE IF ~channel_info.found
             THEN [ok |-> FALSE, out |-> "not registered"]
             ELSE IF tile_name \notin SeqToSet(tile_names)
             THEN [ok |-> FALSE, out |-> "invalid tile"]
             ELSE IF image = None
             THEN [ok |-> FALSE, out |-> "must attach an image"]
             ELSE [ok |-> TRUE, submission_lookup_id |-> submission_lookup_id,
                   channel_info |-> channel_info]

\* lines 582-612: the checks before the defer, in their order
TileraceSubmitChecks(guild, channel, tile_name, image) ==
    IF guild = NoGuild THEN [ok |-> FALSE, out |-> "not in DMs"]
    ELSE IF ~sheets_ready THEN [ok |-> FALSE, out |-> "Setup is still starting"]
    ELSE LET submission_lookup_id ==
                 IF is_server_mode THEN IdStr[guild] ELSE IdStr[channel]
             channel_info == get_channel_ids_for_submission(submission_lookup_id)
         IN  IF ~is_server_mode /\ channel_info.found
                /\ channel # IntOf[channel_info.submission_id]
             THEN [ok |-> FALSE, out |-> "designated team channel only"]
             ELSE IF ~channel_info.found
             THEN [ok |-> FALSE, out |-> "not registered"]
             ELSE IF tile_name \notin SeqToSet(tile_names)
             THEN [ok |-> FALSE, out |-> "invalid tile"]
             ELSE IF image = None
             THEN [ok |-> FALSE, out |-> "must attach an image"]
             ELSE [ok |-> TRUE, submission_lookup_id |-> submission_lookup_id,
                   channel_info |-> channel_info]

\* lines 582-614: the request arrives, is checked, and is answered or deferred
TileraceSubmit(guild, channel, tile_name, image) ==
    /\ variant = "buttons"
    /\ CanStart
    /\ clock + AwaitingTimestamp < MaxSubmits
    /\ LET v == TileraceSubmitChecks(guild, channel, tile_name, image)
           req == [guild |-> guild, channel |-> channel, tile_name |-> tile_name,
                   image |-> image]
       IN  IF v.ok
           THEN /\ tasks' = Start([pc |-> "deferred", kind |-> "submit", req |-> req,
                        submission_lookup_id |-> v.submission_lookup_id,
                        channel_info |-> v.channel_info,
                        tile_name |-> tile_name, image |-> image])
           ELSE tasks' = Start(Rejected(req, v.out))
    /\ UNCHANGED <<Config, World, ButtonState>>

\* lines 616-631: timestamp, approval channel lookup, embed, post issued
TileraceSubmitPost(t, channelFound) ==
    /\ variant = "buttons"
    /\ t.pc = "deferred" /\ t.kind = "submit"
    /\ clock' = clock + 1
    /\ LET timestamp == clock + 1
       IN  IF ~channelFound
           THEN tasks' = Step(t, SubmitReply(timestamp, 0,
                                             "Approval channel not found"))
           ELSE tasks' = Step(t, [pc |-> "posting", kind |-> "submit",
                              timestamp |-> timestamp,
                              channel |-> t.channel_info.approval,
                              embed |-> TileraceEmbed(Submitter, t.tile_name, t.image,
                                            timestamp, t.submission_lookup_id)])
    /\ UNCHANGED <<Config, api_cost_log, ledger, messages, forwarded,
                   submission_message_guild_map, ButtonState>>

\* lines 630-636: the post takes effect (message with its Approve / Deny view)
\* or fails; the answer to the submitter is issued
TileraceSubmitPosted(t, sendOk) ==
    /\ variant = "buttons"
    /\ t.pc = "posting"
    /\ IF sendOk
       THEN /\ messages' = [messages EXCEPT ![NextMessageId] =
                                Posted(t.channel, t.embed, TRUE)]
            /\ tasks' = Step(t, SubmitReply(t.timestamp, NextMessageId,
                                      "Submission received and sent for approval"))
       ELSE /\ tasks' = Step(t, SubmitReply(t.timestamp, 0,
                                      "Couldn't post to approval channel"))
            /\ UNCHANGED messages
    /\ UNCHANGED <<Config, api_cost_log, clock, ledger, forwarded,
                   submission_message_guild_map, ButtonState>>

----------------------------------------------------------------------------
(* Buttons variant: reading and archiving an approval embed (tilerace.py 245-277) *)

RECURSIVE FieldValue(_, _, _)
\* the value of the last field whose lower-cased name is n, else dflt
FieldValue(fields, n, dflt) ==
    IF fields = <<>> THEN dflt
    ELSE LET f == fields[Len(fields)]
         IN  IF Lower(f.name) = n THEN f.value
             ELSE FieldValue(SubSeq(fields, 1, Len(fields) - 1), n, dflt)

\* re.search(r"SID\s+(\d+)", ft): the digits after the first "SID" that is
\* followed by blanks and digits
SidAt(ft, i) ==
    /\ IsLit(ft[i], "SID")
    /\ \E j \in (i + 2)..Len(ft) :
          /\ ft[j].c = "digits"
          /\ \A k \in (i + 1)..(j - 1) : ft[k].c = "space"
ParseSid(ft) ==
    IF \E i \in 1..Len(ft) : SidAt(ft, i)
    THEN LET i == CHOOSE i \in 1..Len(ft) :
                      SidAt(ft, i) /\ \A k \in 1..(i - 1) : ~SidAt(ft, k)
             j == CHOOSE j \in (i + 2)..Len(ft) :
                      ft[j].c = "digits" /\ \A k \in (i + 1)..(j - 1) : ft[k].c = "space"
         IN  ft[j].v
    ELSE None

\* re.search(r"Submitted at ([0-9:\- ]+)", ft): the longest run of digit, colon,
\* dash and blank text after the first "Submitted at " that has such a run
InTsClass(tok) == tok.c \in {"ts", "digits", "space"}
TsAt(ft, i) == IsLit(ft[i], "Submitted at ") /\ i < Len(ft) /\ InTsClass(ft[i + 1])
ParseTimestamp(ft) ==
    IF \E i \in 1..Len(ft) : TsAt(ft, i)
    THEN LET i == CHOOSE i \in 1..Len(ft) :
                      TsAt(ft, i) /\ \A k \in 1..(i - 1) : ~TsAt(ft, k)
             j == CHOOSE j \in (i + 1)..Len(ft) :
                      /\ \A k \in (i + 1)..j : InTsClass(ft[k])
                      /\ (j = Len(ft) \/ ~InTsClass(ft[j + 1]))
         IN  SubSeq(ft, i + 1, j)
    ELSE <<>>

\* parse_submission_from_embed with the lookup key taken from the guild of the
\* interaction, not from the footer
parse_submission_by_guild(embed) ==
    [tile |-> FieldValue(embed.fields, "tile", None),
     user_display |-> FieldValue(embed.fields, "submitted by", None),
     image_url |-> embed.image,
     timestamp_str |-> ParseTimestamp(embed.footer),
     submission_id |-> IdStr[12345]]

\* vals of parse_submission_from_embed; a timestamp_str of <<>> is None
parse_submission_from_embed(embed) ==
    [tile |-> FieldValue(embed.fields, "tile", None),
     user_display |-> FieldValue(embed.fields, "submitted by", None),
     image_url |-> embed.image,
     timestamp_str |-> ParseTimestamp(embed.footer),
     submission_id |-> ParseSid(embed.footer)]

archive_embed(embed, status) ==
    [title |-> <<status, " * ">> \o embed.title,
     fields |-> embed.fields,
     image |-> embed.image,
     footer |-> embed.footer \o <<Space, Tok("*"), Space, Tok("Archived")>>]

\* approver_check without the test of lines 284-285
approver_check_passes_all(user) == TRUE

REQUIRE_APPROVER_PERMS == TRUE
approver_check(user) == user \in Administrator \/ user \in ManageMessages

----------------------------------------------------------------------------
(* Buttons variant: Approve -> pick item -> enter amount (tilerace.py 292-383) *)

\* ApproveDenyView.approve, lines 368-383: the button is pressed on a message
\* that shows it; the item prompt appears, or the presser is told why not
Approve(user, m) ==
    /\ variant = "buttons"
    /\ messages[m].state = "live" /\ messages[m].view
    /\ IF REQUIRE_APPROVER_PERMS /\ ~approver_check(user)
       THEN /\ CanStart
            /\ tasks' = Start(Reply("approve", user, m, "no permission"))
            /\ UNCHANGED prompts
       ELSE IF messages[m].embeds = <<>>
       THEN /\ CanStart
            /\ tasks' = Start(Reply("approve", user, m, "Missing submission embed"))
            /\ UNCHANGED prompts
       ELSE LET data == parse_submission_from_embed(messages[m].embeds[1])
                tile == IF data.tile = None THEN "" ELSE data.tile
                items == IF tile \in DOMAIN tile_items /\ tile_items[tile] # <<>>
                         THEN tile_items[tile] ELSE <<"Unknown">>
            IN  /\ prompts' = prompts \cup {[msg |-> m, invoker_id |-> user,
                                  items |-> items, original_message |-> messages[m]]}
                /\ UNCHANGED tasks
    /\ UNCHANGED <<Config, World, HEALTH, handles, initTask, SUBMISSION_HEADER,
                   tile_names, tile_items, modals, APPROVAL_STATE>>

\* ItemSelectCallback without the test of lines 343-345
ItemSelectCallbackAnyUser(p, user, selected_item) ==
    /\ variant = "buttons"
    /\ p \in prompts
    /\ selected_item \in SeqToSet(p.items)
    /\ IF REQUIRE_APPROVER_PERMS /\ ~approver_check(user)
       THEN /\ CanStart
            /\ tasks' = Start(Reply("select", user, p.msg, "no permission"))
            /\ UNCHANGED <<APPROVAL_STATE, modals>>
       ELSE IF p.original_message.embeds = <<>>
       THEN /\ CanStart
            /\ tasks' = Start(Reply("select", user, p.msg, "Missing submission embed"))
            /\ UNCHANGED <<APPROVAL_STATE, modals>>
       ELSE /\ APPROVAL_STATE' = (<<p.msg, p.invoker_id>> :> [item |-> selected_item])
                                     @@ APPROVAL_STATE
            /\ modals' = modals \cup {[msg |-> p.msg, invoker_id |-> p.invoker_id,
                                       shown_to |-> user,
                                       original_message |-> p.original_message]}
            /\ UNCHANGED tasks
    /\ UNCHANGED <<Config, World, HEALTH, handles, initTask, SUBMISSION_HEADER,
                   tile_names, tile_items, prompts>>

\* ItemSelect.callback, lines 342-357: an item is picked in a prompt; the
\* amount dialog is sent to the one who picked (interaction.response)
ItemSelectCallback(p, user, selected_item) ==
    /\ variant = "buttons"
    /\ p \in prompts
    /\ selected_item \in SeqToSet(p.items)
    /\ IF user # p.invoker_id
       THEN /\ CanStart
            /\ tasks' = Start(Reply("select", user, p.msg, "This prompt isn't for you"))
            /\ UNCHANGED <<APPROVAL_STATE, modals>>
       ELSE IF REQUIRE_APPROVER_PERMS /\ ~approver_check(user)
       THEN /\ CanStart
            /\ tasks' = Start(Reply("select", user, p.msg, "no permission"))
            /\ UNCHANGED <<APPROVAL_STATE, modals>>
       ELSE IF p.original_message.embeds = <<>>
       THEN /\ CanStart
            /\ tasks' = Start(Reply("select", user, p.msg, "Missing submission embed"))
            /\ UNCHANGED <<APPROVAL_STATE, modals>>
       ELSE /\ APPROVAL_STATE' = (<<p.msg, p.invoker_id>> :> [item |-> selected_item])
                                     @@ APPROVAL_STATE
            /\ modals' = modals \cup {[msg |-> p.msg, invoker_id |-> p.invoker_id,
                                       shown_to |-> user,
                                       original_message |-> p.original_message]}
            /\ UNCHANGED tasks
    /\ UNCHANGED <<Config, World, HEALTH, handles, initTask, SUBMISSION_HEADER,
                   tile_names, tile_items, prompts>>

\* rows the ledger may still receive from amount dialogs already handed in
RowsInFlight ==
    LET S == {t \in Suspended : t.kind = "amount" /\ t.pc \in {"deferred", "append"}}
    IN  BagCardinality([t \in S |-> tasks[t]])

\* the approval message has been archived: a decision on it has completed
IsArchived(m) == messages[m].state = "live" /\ ~messages[m].view

\* AmountModal.on_submit, line 302: the dialog is handed in by the one it was
\* shown to, who is its invoker (lines 343-345); the handler defers
AmountModalOnSubmit(d, text) ==
    /\ variant = "buttons"
    /\ d \in modals
    /\ CanStart
    /\ Len(ledger) + RowsInFlight < MaxRows
    /\ modals' = modals \ {d}
    /\ tasks' = Start([pc |-> "deferred", kind |-> "amount", who |-> d.invoker_id,
                       msg |-> d.msg, original_message |-> d.original_message,
                       text |-> text, after_decision |-> IsArchived(d.msg)])
    /\ UNCHANGED <<Config, World, HEALTH, handles, initTask, SUBMISSION_HEADER,
                   tile_names, tile_items, prompts, APPROVAL_STATE>>

\* lines 315-318 without the amt <= 0 test: any integer is taken
ParseAmountWithoutSignTest(text) ==
    IF IsInt(text)
    THEN [ok |-> TRUE, amt |-> IntOf[text]]
    ELSE [ok |-> FALSE]

\* int(str(value).strip()) with the amt <= 0 test, lines 315-318
ParseAmount(text) ==
    IF IsInt(text) /\ IntOf[text] > 0
    THEN [ok |-> TRUE, amt |-> IntOf[text]]
    ELSE [ok |-> FALSE]

\* ApprovalRow without lines 458-459: no cell is kept for the Activity column
ApprovalRowNoActivity(data, submission_id, user, item, amt) ==
    << IF data.timestamp_str = <<>> THEN <<Tok("now")>> ELSE data.timestamp_str,
       submission_id,
       IF data.user_display = None THEN user ELSE data.user_display,
       IF data.tile = None THEN "" ELSE data.tile,
       item, amt, IF data.image_url = None THEN "" ELSE data.image_url >>

\* the row of process_approval, lines 453-465
ApprovalRow(data, submission_id, user, item, amt) ==
    LET header_lower == [i \in DOMAIN SUBMISSION_HEADER |-> Lower(SUBMISSION_HEADER[i])]
        has_activity_col == "activity" \in SeqToSet(header_lower)
    IN  << IF data.timestamp_str = <<>> THEN <<Tok("now")>> ELSE data.timestamp_str,
           submission_id,
           IF data.user_display = None THEN user ELSE data.user_display,
           IF data.tile = None THEN "" ELSE data.tile >>
        \o (IF has_activity_col THEN <<"">> ELSE <<>>)
        \o << item, amt, IF data.image_url = None THEN "" ELSE data.image_url >>

\* process_approval without lines 466-475: the row is built but never appended
process_approval_skips_append(who, msg, embed, amt, item, after_decision) ==
    [pc |-> "forward", kind |-> "amount", who |-> who, msg |-> msg, embed |-> embed,
     amt |-> amt, item |-> item, after_decision |-> after_decision,
     dest |-> get_channel_ids_for_submission(
                  parse_submission_from_embed(embed).submission_id).approved]

\* process_approval, lines 433-475: from its entry to the append being issued
process_approval(who, msg, embed, amt, item, after_decision) ==
    IF ~sheets_ready THEN Reply("approval", who, msg, "Sheets are still starting up")
    ELSE LET data == parse_submission_from_embed(embed)
             submission_id == data.submission_id
         IN  IF submission_id = None
             THEN Reply("approval", who, msg, "Missing submission ID")
             ELSE IF ~get_channel_ids_for_submission(submission_id).found
             THEN Reply("approval", who, msg, "Could not find target channels")
             ELSE [pc |-> "append", kind |-> "amount", who |-> who, msg |-> msg,
                   embed |-> embed, amt |-> amt, item |-> item,
                   after_decision |-> after_decision,
                   channel_info |-> get_channel_ids_for_submission(submission_id),
                   row |-> ApprovalRow(data, submission_id, who, item, amt)]

\* on_submit without the test of lines 323-325: with no stored choice the
\* approval goes on with the item "Unknown"
on_submit_without_choice(t) ==
    IF REQUIRE_APPROVER_PERMS /\ ~approver_check(t.who)
    THEN Reply("amount", t.who, t.msg, "no permission")
    ELSE IF ~sheets_ready
    THEN Reply("amount", t.who, t.msg, "Sheets are still starting up")
    ELSE IF t.original_message.embeds = <<>>
    THEN Reply("amount", t.who, t.msg, "Missing submission embed")
    ELSE IF ~ParseAmount(t.text).ok
    THEN Reply("amount", t.who, t.msg, "Amount must be a positive integer")
    ELSE process_approval(t.who, t.msg, t.original_message.embeds[1],
                          ParseAmount(t.text).amt,
                          IF <<t.msg, t.who>> \in DOMAIN APPROVAL_STATE
                          THEN APPROVAL_STATE[<<t.msg, t.who>>].item ELSE "Unknown",
                          t.after_decision)

\* AmountModal.on_submit, lines 304-332: after the defer, up to the first await
on_submit(t) ==
    IF REQUIRE_APPROVER_PERMS /\ ~approver_check(t.who)
    THEN Reply("amount", t.who, t.msg, "no permission")
    ELSE IF ~sheets_ready
    THEN Reply("amount", t.who, t.msg, "Sheets are still starting up")
    ELSE IF t.original_message.embeds = <<>>
    THEN Reply("amount", t.who, t.msg, "Missing submission embed")
    ELSE IF ~ParseAmount(t.text).ok
    THEN Reply("amount", t.who, t.msg, "Amount must be a positive integer")
    ELSE IF <<t.msg, t.who>> \notin DOMAIN APPROVAL_STATE
    THEN Reply("amount", t.who, t.msg, "Please pick an item first")
    ELSE process_approval(t.who, t.msg, t.original_message.embeds[1],
                          ParseAmount(t.text).amt, APPROVAL_STATE[<<t.msg, t.who>>].item,
                          t.after_decision)

AmountModalChecks(t) ==
    /\ variant = "buttons"
    /\ t.pc = "deferred" /\ t.kind = "amount"
    /\ tasks' = Step(t, on_submit(t))
    /\ UNCHANGED <<Config, World, ButtonState>>

\* AfterApprovalAppend without the return of lines 473-475
AfterApprovalAppendGoesOn(t, appendOk, approvedFound) ==
    [pc |-> IF approvedFound THEN "forward" ELSE "archive",
     kind |-> "amount", who |-> t.who, msg |-> t.msg, embed |-> t.embed,
     amt |-> t.amt, item |-> t.item, after_decision |-> t.after_decision,
     dest |-> t.channel_info.approved]

\* lines 467-493 after the append was tried: on failure the approver is told
\* and process_approval returns; else the forward (or, with no approved
\* channel, the archive edit) is issued
AfterApprovalAppend(t, appendOk, approvedFound) ==
    IF ~appendOk
    THEN Reply("approval", t.who, t.msg, "Failed to record in Sheets")
    ELSE [pc |-> IF approvedFound THEN "forward" ELSE "archive",
          kind |-> "amount", who |-> t.who, msg |-> t.msg, embed |-> t.embed,
          amt |-> t.amt, item |-> t.item, after_decision |-> t.after_decision,
          dest |-> t.channel_info.approved]

\* lines 467-493: the append takes effect or fails
ProcessApprovalAppended(t, appendOk, approvedFound) ==
    /\ variant = "buttons"
    /\ t.pc = "append"
    /\ ledger' = IF appendOk THEN Append(ledger, t.row) ELSE ledger
    /\ tasks' = Step(t, AfterApprovalAppend(t, appendOk, approvedFound))
    /\ UNCHANGED <<Config, api_cost_log, clock, messages, forwarded,
                   submission_message_guild_map, ButtonState>>

\* the embed of lines 480-489
approved_embed(embed, item, amt) ==
    [title |-> embed.title,
     fields |-> SelectSeq(embed.fields, LAMBDA f : Lower(f.name) \notin {"item", "amount"})
                \o <<Field("Item", item), Field("Amount", amt)>>,
     image |-> embed.image,
     footer |-> embed.footer]

\* lines 490-499: the forward takes effect or fails silently; the archive edit
\* is issued
ProcessApprovalForwarded(t, sendOk) ==
    /\ variant = "buttons"
    /\ t.pc = "forward" /\ t.kind = "amount"
    /\ forwarded' = IF sendOk
                    THEN forwarded (+) SetToBag({[ch |-> t.dest,
                               embed |-> approved_embed(t.embed, t.item, t.amt)]})
                    ELSE forwarded
    /\ tasks' = Step(t, [t EXCEPT !.pc = "archive"])
    /\ UNCHANGED <<Config, api_cost_log, clock, ledger, messages,
                   submission_message_guild_map, ButtonState>>

Archived(message, embed, status) ==
    [message EXCEPT !.embeds = <<archive_embed(embed, status)>>, !.view = FALSE]

\* lines 496-501: the archive edit takes effect or fails silently; the approver
\* is told the approval was recorded
ProcessApprovalArchived(t, editOk) ==
    /\ variant = "buttons"
    /\ t.pc = "archive" /\ t.kind = "amount"
    /\ messages' = IF editOk
                   THEN [messages EXCEPT ![t.msg] = Archived(@, t.embed, "Approved")]
                   ELSE messages
    /\ tasks' = Step(t, Reply("approval", t.who, t.msg, "Approved and recorded"))
    /\ UNCHANGED <<Config, api_cost_log, clock, ledger, forwarded,
                   submission_message_guild_map, ButtonState>>

\* line 333: process_approval has returned; the approver's choice is dropped
AmountModalReturned(t) ==
    /\ variant = "buttons"
    /\ t.pc = "reply" /\ t.kind = "approval"
    /\ APPROVAL_STATE' = Pop(APPROVAL_STATE, <<t.msg, t.who>>)
    /\ tasks' = Finish(t)
    /\ UNCHANGED <<Config, World, HEALTH, handles, initTask, SUBMISSION_HEADER,
                   tile_names, tile_items, prompts, modals>>

----------------------------------------------------------------------------
(* Buttons variant: Deny (tilerace.py 385-428) *)

\* the embed of lines 413-418
denied_embed(embed) ==
    [title |-> embed.title, fields |-> embed.fields, image |-> embed.image,
     footer |-> embed.footer]

\* copies the denied channels hold or may still receive
DeniedCopies ==
    LET S == {t \in Suspended : t.kind = "deny" /\ t.pc = "forward"}
        D == {f \in BagToSet(forwarded) :
                  \E r \in SeqToSet(Tail(TeamDetails)) : f.ch = IntOf[r[5]]}
    IN  BagCardinality([t \in S |-> tasks[t]]) + BagCardinality([f \in D |-> forwarded[f]])

\* lines 387-422: the button is pressed on a message that shows it; the presser
\* is told why not, or the forward (or, with no denied channel, the archive
\* edit) is issued
Deny(user, m, deniedFound) ==
    /\ variant = "buttons"
    /\ messages[m].state = "live" /\ messages[m].view
    /\ CanStart
    /\ DeniedCopies < MaxDenied
    /\ IF REQUIRE_APPROVER_PERMS /\ ~approver_check(user)
       THEN tasks' = Start(Reply("deny", user, m, "no permission"))
       ELSE IF ~sheets_ready
       THEN tasks' = Start(Reply("deny", user, m, "Sheets still starting"))
       ELSE IF messages[m].embeds = <<>>
       THEN tasks' = Start(Reply("deny", user, m, "Missing submission embed"))
       ELSE LET embed == messages[m].embeds[1]
                submission_id == parse_submission_from_embed(embed).submission_id
            IN  IF submission_id = None
                THEN tasks' = Start(Reply("deny", user, m, "Missing submission ID"))
                ELSE IF ~get_channel_ids_for_submission(submission_id).found
                THEN tasks' = Start(Reply("deny", user, m,
                                          "Could not find target channels"))
                ELSE tasks' = Start(
                         [pc |-> IF deniedFound THEN "forward" ELSE "archive",
                          kind |-> "deny", who |-> user, msg |-> m, embed |-> embed,
                          dest |-> get_channel_ids_for_submission(submission_id).denied])
    /\ UNCHANGED <<Config, World, ButtonState>>

\* Deny sending its copy to the approved channel of the routing entry
DenyForwardedToApproved(t, sendOk) ==
    /\ variant = "buttons"
    /\ t.pc = "forward" /\ t.kind = "deny"
    /\ forwarded' =
           IF sendOk
           THEN forwarded (+) SetToBag({[
                    ch |-> get_channel_ids_for_submission(
                               parse_submission_from_embed(t.embed).submission_id).approved,
                    embed |-> denied_embed(t.embed)]})
           ELSE forwarded
    /\ tasks' = Step(t, [t EXCEPT !.pc = "archive"])
    /\ UNCHANGED <<Config, api_cost_log, clock, ledger, messages,
                   submission_message_guild_map, ButtonState>>

\* lines 419-425: the forward takes effect or fails silently; the archive edit
\* is issued
DenyForwarded(t, sendOk) ==
    /\ variant = "buttons"
    /\ t.pc = "forward" /\ t.kind = "deny"
    /\ forwarded' = IF sendOk
                    THEN forwarded (+) SetToBag({[ch |-> t.dest,
                                                  embed |-> denied_embed(t.embed)]})
                    ELSE forwarded
    /\ tasks' = Step(t, [t EXCEPT !.pc = "archive"])
    /\ UNCHANGED <<Config, api_cost_log, clock, ledger, messages,
                   submission_message_guild_map, ButtonState>>

\* lines 424-428: the archive edit takes effect or fails silently; the presser
\* is told the submission was denied
DenyArchived(t, editOk) ==
    /\ variant = "buttons"
    /\ t.pc = "archive" /\ t.kind = "deny"
    /\ messages' = IF editOk
                   THEN [messages EXCEPT ![t.msg] = Archived(@, t.embed, "Denied")]
                   ELSE messages
    /\ tasks' = Step(t, Reply("deny", t.who, t.msg, "Denied"))
    /\ UNCHANGED <<Config, api_cost_log, clock, ledger, forwarded,
                   submission_message_guild_map, ButtonState>>

----------------------------------------------------------------------------

Next ==
    \/ \E guild \in {12345, NoGuild}, tile_name \in TileInputs :
            DirectSubmit(guild, 10, tile_name, "Tanzanite Fang", 1, ImageUrl)
    \/ \E t \in Suspended, appendOk \in BOOLEAN : DirectSubmitRecord(t, appendOk)
    \/ \E guild \in {12345, NoGuild}, channel \in SubmitChannels,
          tile_name \in TileInputs :
            Submit(guild, channel, tile_name, "Tanzanite Fang", 1, ImageUrl)
    \/ \E t \in Suspended, appendOk \in BOOLEAN, channelFound \in BOOLEAN :
            SubmitRecord(t, appendOk, channelFound)
    \/ \E guild \in {12345, NoGuild}, channel \in SubmitChannels :
            AutoSubmit(guild, channel, 1, ImageUrl)
    \/ \E t \in Suspended : AutoSubmitAnalyse(t)
    \/ \E t \in Suspended, answer \in MainAnswers,
          appendOk \in BOOLEAN, channelFound \in BOOLEAN :
            AutoSubmitAnalysed(t, answer, appendOk, TRUE, channelFound)
    \/ \E t \in Suspended, sendOk \in BOOLEAN : SubmitPosted(t, sendOk)
    \/ \E t \in Suspended, reactionOk \in BOOLEAN : SubmitSeeded(t, reactionOk)
    \/ \E user \in Reactors, message_id \in Msgs, emoji \in Emojis :
            React(user, message_id, emoji)
    \/ \E t \in Suspended, channelFound \in BOOLEAN : OnRawReactionAdd(t, channelFound)
    \/ \E t \in Suspended, destFound \in BOOLEAN : ReactionFetched(t, destFound)
    \/ \E t \in Suspended, sendOk \in BOOLEAN : ReactionSent(t, sendOk)
    \/ \E t \in Suspended : ReactionDeleted(t)
    \/ \E t \in Suspended : Replied(t)
    \/ \E value \in ModeValues : SetMode(value)
    \/ OnReady
    \/ \E ok \in BOOLEAN : InitAttempt(ok, TRUE)
    \/ InitWake
    \/ \E guild \in {12345, NoGuild}, channel \in SubmitChannels,
          tile_name \in TileInputs :
            TileraceSubmit(guild, channel, tile_name, ImageUrl)
    \/ \E t \in Suspended, channelFound \in BOOLEAN : TileraceSubmitPost(t, channelFound)
    \/ \E t \in Suspended, sendOk \in BOOLEAN : TileraceSubmitPosted(t, sendOk)
    \/ \E user \in ApprovePressers, m \in Msgs : Approve(user, m)
    \/ \E p \in prompts, user \in ApprovePressers, selected_item \in ItemInputs :
            ItemSelectCallback(p, user, selected_item)
    \/ \E d \in modals, text \in AmountTexts : AmountModalOnSubmit(d, text)
    \/ \E t \in Suspended : AmountModalChecks(t)
    \/ \E t \in Suspended, appendOk \in BOOLEAN, approvedFound \in BOOLEAN :
            ProcessApprovalAppended(t, appendOk, approvedFound)
    \/ \E t \in Suspended, sendOk \in BOOLEAN : ProcessApprovalForwarded(t, sendOk)
    \/ \E t \in Suspended, editOk \in BOOLEAN : ProcessApprovalArchived(t, editOk)
    \/ \E t \in Suspended : AmountModalReturned(t)
    \/ \E user \in DenyPressers, m \in Msgs, deniedFound \in BOOLEAN :
            Deny(user, m, deniedFound)
    \/ \E t \in Suspended, sendOk \in BOOLEAN : DenyForwarded(t, sendOk)
    \/ \E t \in Suspended, editOk \in BOOLEAN : DenyArchived(t, editOk)

Spec == Init /\ [][Next]_vars

----------------------------------------------------------------------------
(* Two approvers on one posted approval message (tilerace.py).  InitPosted is
   the state Spec reaches from server mode by on_ready, a successful start-up
   and one accepted /submit of "Zulrah" from guild 12345 that was posted and
   answered; from there ann and ben, who both pass approver_check, run the
   Approve -> pick item -> enter amount sub-flow. *)

RaceApprovers == {"ann", "ben"}

InitPosted ==
    /\ variant = "buttons"
    /\ modeCell = "TRUE"
    /\ team_sheet = TeamDetails
    /\ submissions_row1 = SubmissionsHeader
    /\ clock = 1
    /\ ledger = <<>>
    /\ messages = [m \in Msgs |->
                      IF m = 1
                      THEN Posted(get_channel_ids_for_submission("12345").approval,
                                  TileraceEmbed(Submitter, "Zulrah", ImageUrl, 1, "12345"),
                                  TRUE)
                      ELSE NoMessage]
    /\ forwarded = EmptyBag
    /\ submission_message_guild_map = EmptyDict
    /\ api_cost_log = <<>>
    /\ HEALTH = [sheets_ready |-> TRUE, last_error |-> 0]
    /\ handles = SeqToSet(Handles)
    /\ initTask = [pc |-> "done", attempt |-> 0, wait |-> 0]
    /\ SUBMISSION_HEADER = SubmissionsHeader
    /\ tile_names = LoadedTileNames
    /\ tile_items = LoadedTileItems
    /\ prompts = {}
    /\ modals = {}
    /\ APPROVAL_STATE = EmptyDict
    /\ tasks = EmptyBag

NextRace ==
    \/ \E user \in RaceApprovers, m \in Msgs : Approve(user, m)
    \/ \E p \in prompts, user \in RaceApprovers, selected_item \in ItemInputs :
            ItemSelectCallback(p, user, selected_item)
    \/ \E d \in modals, text \in AmountTexts : AmountModalOnSubmit(d, text)
    \/ \E t \in Suspended : AmountModalChecks(t)
    \/ \E t \in Suspended, appendOk \in BOOLEAN, approvedFound \in BOOLEAN :
            ProcessApprovalAppended(t, appendOk, approvedFound)
    \/ \E t \in Suspended, sendOk \in BOOLEAN : ProcessApprovalForwarded(t, sendOk)
    \/ \E t \in Suspended, editOk \in BOOLEAN : ProcessApprovalArchived(t, editOk)
    \/ \E t \in Suspended : AmountModalReturned(t)
    \/ \E t \in Suspended : Replied(t)

SpecRace == InitPosted /\ [][NextRace]_vars

----------------------------------------------------------------------------
(* The bot is started again while an approval message of an earlier run is
   still in the approval channel (tilerace.py).  on_ready registers the
   persistent ApproveDenyView (line 550), so the buttons of that message reach
   the new process from its first moment, before init_sheets_with_retry has
   finished.  InitRestarted is the state right after construction: nothing is
   loaded, the earlier message (created at reading 0 of the clock, before this
   run) is live with its view.  ann passes approver_check. *)

RestartPressers == {"ann"}
RestartHeaders == {SubmissionsHeader, SubmissionsHeaderNoActivity}

InitRestarted ==
    /\ variant = "buttons"
    /\ modeCell = "TRUE"
    /\ team_sheet = TeamDetails
    /\ submissions_row1 \in RestartHeaders
    /\ clock = MaxSubmits
    /\ ledger = <<>>
    /\ messages = [m \in Msgs |->
                      IF m = 1
                      THEN Posted(FirstRow(Tail(TeamDetails), "12345").approval,
                                  TileraceEmbed(Submitter, "Zulrah", ImageUrl, 0, "12345"),
                                  TRUE)
                      ELSE NoMessage]
    /\ forwarded = EmptyBag
    /\ submission_message_guild_map = EmptyDict
    /\ api_cost_log = <<>>
    /\ HEALTH = [sheets_ready |-> FALSE, last_error |-> 0]
    /\ handles = {}
    /\ initTask = [pc |-> "not started", attempt |-> 0, wait |-> 0]
    /\ SUBMISSION_HEADER = <<>>
    /\ tile_names = <<>>
    /\ tile_items = <<>>
    /\ prompts = {}
    /\ modals = {}
    /\ APPROVAL_STATE = EmptyDict
    /\ tasks = EmptyBag

NextRestart ==
    \/ OnReady
    \/ \E ok \in BOOLEAN, headerOk \in BOOLEAN : InitAttempt(ok, headerOk)
    \/ InitWake
    \/ \E user \in RestartPressers, m \in Msgs : Approve(user, m)
    \/ \E p \in prompts, user \in RestartPressers, selected_item \in ItemInputs :
            ItemSelectCallback(p, user, selected_item)
    \/ \E d \in modals, text \in AmountTexts : AmountModalOnSubmit(d, text)
    \/ \E t \in Suspended : AmountModalChecks(t)
    \/ \E t \in Suspended, appendOk \in BOOLEAN, approvedFound \in BOOLEAN :
            ProcessApprovalAppended(t, appendOk, approvedFound)
    \/ \E t \in Suspended, sendOk \in BOOLEAN : ProcessApprovalForwarded(t, sendOk)
    \/ \E t \in Suspended, editOk \in BOOLEAN : ProcessApprovalArchived(t, editOk)
    \/ \E t \in Suspended : AmountModalReturned(t)
    \/ \E user \in RestartPressers, m \in Msgs, deniedFound \in BOOLEAN :
            Deny(user, m, deniedFound)
    \/ \E t \in Suspended, sendOk \in BOOLEAN : DenyForwarded(t, sendOk)
    \/ \E t \in Suspended, editOk \in BOOLEAN : DenyArchived(t, editOk)
    \/ \E t \in Suspended : Replied(t)

SpecRestart == InitRestarted /\ [][NextRestart]_vars

----------------------------------------------------------------------------
(* Creation alone, with every combination of arguments a request can carry:
   /submit and /auto_submit of the reaction-driven bot, /submit of tilerace.py
   with its start-up, and the operator switching the mode in between. *)

NextSubmit ==
    \/ \E guild \in Guilds \cup {NoGuild}, channel \in SubmitChannels,
          tile_name \in TileInputs, activity_name \in ActivityInputs,
          amount \in AmountInputs, image \in {ImageUrl, None} :
            DirectSubmit(guild, channel, tile_name, activity_name, amount, image)
    \/ \E t \in Suspended, appendOk \in BOOLEAN : DirectSubmitRecord(t, appendOk)
    \/ \E guild \in Guilds \cup {NoGuild}, channel \in SubmitChannels,
          tile_name \in TileInputs, activity_name \in ActivityInputs,
          amount \in AmountInputs, image \in {ImageUrl, None} :
            Submit(guild, channel, tile_name, activity_name, amount, image)
    \/ \E t \in Suspended, appendOk \in BOOLEAN, channelFound \in BOOLEAN :
            SubmitRecord(t, appendOk, channelFound)
    \/ \E guild \in Guilds \cup {NoGuild}, channel \in SubmitChannels,
          amount \in AmountInputs, image \in {ImageUrl, BlankUrl, None} :
            AutoSubmit(guild, channel, amount, image)
    \/ \E t \in Suspended : AutoSubmitAnalyse(t)
    \/ \E t \in Suspended, answer \in OracleAnswers(ImageUrl),
          appendOk \in BOOLEAN, costOk \in BOOLEAN, channelFound \in BOOLEAN :
            AutoSubmitAnalysed(t, answer, appendOk, costOk, channelFound)
    \/ \E t \in Suspended, sendOk \in BOOLEAN : SubmitPosted(t, sendOk)
    \/ \E t \in Suspended, reactionOk \in BOOLEAN : SubmitSeeded(t, reactionOk)
    \/ \E t \in Suspended : Replied(t)
    \/ \E value \in ModeValues : SetMode(value)
    \/ OnReady
    \/ \E ok \in BOOLEAN : InitAttempt(ok, TRUE)
    \/ InitWake
    \/ \E guild \in Guilds \cup {NoGuild}, channel \in SubmitChannels,
          tile_name \in TileInputs, image \in {ImageUrl, None} :
            TileraceSubmit(guild, channel, tile_name, image)
    \/ \E t \in Suspended, channelFound \in BOOLEAN : TileraceSubmitPost(t, channelFound)
    \/ \E t \in Suspended, sendOk \in BOOLEAN : TileraceSubmitPosted(t, sendOk)

SpecSubmit == Init /\ [][NextSubmit]_vars

----------------------------------------------------------------------------
(* Routing over several TeamDetails tables: the table is drawn when the bot
   starts and requests that pass every other check arrive from the guilds and
   channels. *)

SingleRow == << TeamHeader, <<"Team 1", "12345", "111", "222", "333">> >>
DuplicateKey == << TeamHeader, <<"Team 1", "12345", "111", "222", "333">>,
                   <<"Team 2", "12345", "444", "333", "222">> >>
DuplicateKeyLater == << TeamHeader, <<"Team 2", "10", "111", "222", "333">>,
                        <<"Team 1", "12345", "444", "333", "222">>,
                        <<"Team 3", "10", "444", "333", "222">>,
                        <<"Team 1", "12345", "111", "222", "333">> >>
BlankChannelFirst == << TeamHeader, <<"Team 1", "12345", "", "222", "333">>,
                        <<"Team 1", "12345", "111", "222", "333">> >>
FourColumns == << <<"Team", "SubmissionID", "Approval", "Approved">>,
                  <<"Team 1", "12345", "111", "222">> >>
RoutingTables == {SingleRow, DuplicateKey, DuplicateKeyLater, BlankChannelFirst,
                  FourColumns, <<TeamHeader>>, TeamDetails}

InitRoute ==
    /\ variant \in {"reaction", "buttons"}
    /\ modeCell \in ModeValues
    /\ team_sheet \in RoutingTables
    /\ submissions_row1 = SubmissionsHeader
    /\ clock = 0
    /\ ledger = <<>>
    /\ messages = [m \in Msgs |-> NoMessage]
    /\ forwarded = EmptyBag
    /\ submission_message_guild_map = EmptyDict
    /\ api_cost_log = <<>>
    /\ HEALTH = [sheets_ready |-> FALSE, last_error |-> 0]
    /\ handles = {}
    /\ initTask = [pc |-> "not started", attempt |-> 0, wait |-> 0]
    /\ SUBMISSION_HEADER = <<>>
    /\ tile_names = <<>>
    /\ tile_items = <<>>
    /\ prompts = {}
    /\ modals = {}
    /\ APPROVAL_STATE = EmptyDict
    /\ tasks = EmptyBag

NextRoute ==
    \/ \E guild \in Guilds, channel \in SubmitChannels :
            Submit(guild, channel, "Zulrah", "Tanzanite Fang", 1, ImageUrl)
    \/ \E t \in Suspended, appendOk \in BOOLEAN, channelFound \in BOOLEAN :
            SubmitRecord(t, appendOk, channelFound)
    \/ \E t \in Suspended, sendOk \in BOOLEAN : SubmitPosted(t, sendOk)
    \/ \E t \in Suspended, reactionOk \in BOOLEAN : SubmitSeeded(t, reactionOk)
    \/ \E t \in Suspended : Replied(t)
    \/ \E value \in ModeValues : SetMode(value)
    \/ OnReady
    \/ \E ok \in BOOLEAN : InitAttempt(ok, TRUE)
    \/ InitWake
    \/ \E guild \in Guilds, channel \in SubmitChannels :
            TileraceSubmit(guild, channel, "Zulrah", ImageUrl)
    \/ \E t \in Suspended, channelFound \in BOOLEAN : TileraceSubmitPost(t, channelFound)
    \/ \E t \in Suspended, sendOk \in BOOLEAN : TileraceSubmitPosted(t, sendOk)

SpecRoute == InitRoute /\ [][NextRoute]_vars

----------------------------------------------------------------------------
(* Start-up of tilerace.py under the event loop's scheduling: on_ready is
   dispatched once the bot is connected, and a coroutine whose awaited call
   has answered or whose sleep has run out is resumed. *)

SpecStartup ==
    /\ Init /\ [][NextSubmit]_vars
    /\ WF_vars(OnReady)
    /\ WF_vars(\E ok \in BOOLEAN : InitAttempt(ok, TRUE))
    /\ WF_vars(InitWake)

----------------------------------------------------------------------------
(* Start-up of tilerace.py with the gateway session re-established: on_ready
   runs again and creates a new warm-up task.  One warm-up task runs at a
   time: the next on_ready is taken when the task before it has ended. *)

\* on_ready, line 551, on a later READY of the gateway
OnReadyAgain ==
    /\ variant = "buttons"
    /\ initTask.pc = "done"
    /\ initTask' = [pc |-> "trying", attempt |-> 1, wait |-> 2]
    /\ UNCHANGED <<Config, World, HEALTH, handles, SUBMISSION_HEADER, tile_names,
                   tile_items, prompts, modals, APPROVAL_STATE, tasks>>

InitReconnect == Init /\ variant = "buttons"

NextReconnect ==
    \/ OnReady
    \/ OnReadyAgain
    \/ \E ok \in BOOLEAN, headerOk \in BOOLEAN : InitAttempt(ok, headerOk)
    \/ InitWake
    \/ \E value \in ModeValues : SetMode(value)

SpecReconnect == InitReconnect /\ [][NextReconnect]_vars

----------------------------------------------------------------------------
(* The matcher and the name test called on their own *)

\* what the image analysis may hand to the matcher, and the thresholds tried
DetectedTexts == {"tanzanite fang", "zulrah", "Zulrah!", "vorkath", "zulr", "dwh", ""}
MaxDetected == 2
DetectedInputs == UNION {[1..n -> DetectedTexts] : n \in 1..MaxDetected}
ThresholdInputs == {80, 81, 88, 100}
NameInputs == {"Zezima", "zezima", "Zezimaa", "Ze_zima", "Woox", "!!!", ""}
NameThresholds == {90, 93}

\* one call of the matcher: its arguments and what it returns
BestMatch(detected_items, taxonomy, score_threshold, order) ==
    /\ variant = "reaction"
    /\ tasks = EmptyBag
    /\ order \in Orders(expanded(detected_items))
    /\ tasks' = Start([pc |-> "returned", kind |-> "match",
                       detected_items |-> detected_items, taxonomy |-> taxonomy,
                       score_threshold |-> score_threshold, order |-> order,
                       result |-> best_match_tile_activity(detected_items, taxonomy,
                                                           score_threshold, order)])
    /\ UNCHANGED <<Config, World, ButtonState>>

\* one call of the name test
NamesMatch(rsn, discord_name, threshold) ==
    /\ variant = "reaction"
    /\ tasks = EmptyBag
    /\ tasks' = Start([pc |-> "returned", kind |-> "names", rsn |-> rsn,
                       discord_name |-> discord_name, threshold |-> threshold,
                       result |-> names_match(rsn, discord_name, threshold)])
    /\ UNCHANGED <<Config, World, ButtonState>>

\* the caller goes on
Returned(t) ==
    /\ t.pc = "returned"
    /\ tasks' = Finish(t)
    /\ UNCHANGED <<Config, World, ButtonState>>

InitMatch ==
    /\ variant = "reaction"
    /\ modeCell = "TRUE"
    /\ team_sheet = TeamDetails
    /\ submissions_row1 = SubmissionsHeader
    /\ clock = 0
    /\ ledger = <<>>
    /\ messages = [m \in Msgs |-> NoMessage]
    /\ forwarded = EmptyBag
    /\ submission_message_guild_map = EmptyDict
    /\ api_cost_log = <<>>
    /\ HEALTH = [sheets_ready |-> FALSE, last_error |-> 0]
    /\ handles = {}
    /\ initTask = [pc |-> "not started", attempt |-> 0, wait |-> 0]
    /\ SUBMISSION_HEADER = <<>>
    /\ tile_names = <<>>
    /\ tile_items = <<>>
    /\ prompts = {}
    /\ modals = {}
    /\ APPROVAL_STATE = EmptyDict
    /\ tasks = EmptyBag

NextMatch ==
    \/ \E detected_items \in DetectedInputs, taxonomy \in Taxonomies,
          score_threshold \in ThresholdInputs :
            \E order \in Orders(expanded(detected_items)) :
                BestMatch(detected_items, taxonomy, score_threshold, order)
    \/ \E rsn \in NameInputs, discord_name \in NameInputs, threshold \in NameThresholds :
            NamesMatch(rsn, discord_name, threshold)
    \/ \E t \in Suspended : Returned(t)

SpecMatch == InitMatch /\ [][NextMatch]_vars

----------------------------------------------------------------------------
(* Loading the taxonomy from the TilesActivities sheet: _load_from_tiles_sheet
   of tilerace.py (72-105) and load_tile_activities of test-noGPT.py (27-36).
   A sheet is the sequence of its rows, the header row first; a row is the
   sequence of its cells, a cell the sequence of its characters. *)

Blanks == {" ", "\n"}
\* str.strip()
RECURSIVE strip(_)
strip(s) ==
    IF s = <<>> THEN s
    ELSE IF Head(s) \in Blanks THEN strip(Tail(s))
    ELSE IF s[Len(s)] \in Blanks THEN strip(SubSeq(s, 1, Len(s) - 1))
    ELSE s

Separators == {",", ";", "\n"}
\* re.split(r"\s*(?:[,;]|\r?\n)\s*", s): the parts between the separators,
\* without the blanks next to a separator
RECURSIVE SplitParts(_, _)
SplitParts(s, part) ==
    IF s = <<>> THEN <<strip(part)>>
    ELSE IF Head(s) \in Separators THEN <<strip(part)>> \o SplitParts(Tail(s), <<>>)
    ELSE SplitParts(Tail(s), Append(part, Head(s)))

\* the texts of seq in their order, a text left out when an earlier one is
\* the same in lower case, and the empty text left out
RECURSIVE DedupeLower(_, _)
DedupeLower(seq, out) ==
    IF seq = <<>> THEN out
    ELSE LET p == Head(seq)
         IN  DedupeLower(Tail(seq),
                 IF p # <<>> /\ \A i \in 1..Len(out) : lower(out[i]) # lower(p)
                 THEN Append(out, p) ELSE out)

\* split_items_field, tilerace.py 60-70
split_items_field(s) ==
    IF s = <<>> THEN <<>> ELSE DedupeLower(SplitParts(strip(s), <<>>), <<>>)

\* row[k] if the row has it, else ""
Cell(row, k) == IF Len(row) >= k THEN row[k] ELSE <<>>
Prefix(seq, n) == SubSeq(seq, 1, IF Len(seq) > n THEN n ELSE Len(seq))

\* lines 84-99 of tilerace.py: the rows below the header, one after the other
RECURSIVE LoadTiles(_, _)
LoadTiles(rows, st) ==
    IF rows = <<>> THEN st
    ELSE LET row == Head(rows)
             tile == strip(Cell(row, 1))
             items_raw == strip(Cell(row, 3))
             parts == split_items_field(items_raw)
             known == \E i \in 1..Len(st.names) : lower(st.names[i]) = lower(tile)
             held == IF tile \in DOMAIN st.items THEN st.items[tile] ELSE <<>>
         IN  IF row = <<>> \/ tile = <<>> THEN LoadTiles(Tail(rows), st)
             ELSE LoadTiles(Tail(rows),
                      [names |-> IF known THEN st.names ELSE Append(st.names, tile),
                       items |-> IF parts = <<>> THEN st.items
                                 ELSE (tile :> DedupeLower(parts, held)) @@ st.items])

\* _load_from_tiles_sheet, tilerace.py 72-105
load_from_tiles_sheet(rows) ==
    LET st == LoadTiles(Tail(rows), [names |-> <<>>, items |-> EmptyDict])
    IN  [names |-> st.names,
         items |-> [t \in DOMAIN st.items |-> Prefix(st.items[t], 25)]]

\* lines 30-35 of test-noGPT.py: keys holds the keys of the dict in their order
RECURSIVE LoadActivities(_, _)
LoadActivities(rows, st) ==
    IF rows = <<>> THEN st
    ELSE LET row == Head(rows)
             tile == strip(row[1])
             activity == strip(row[2])
             held == IF tile \in DOMAIN st.items THEN st.items[tile] ELSE <<>>
         IN  IF Len(row) < 2 THEN LoadActivities(Tail(rows), st)
             ELSE LoadActivities(Tail(rows),
                      [names |-> IF tile \in DOMAIN st.items THEN st.names
                                 ELSE Append(st.names, tile),
                       items |-> (tile :> IF activity \in SeqToSet(held) THEN held
                                          ELSE Append(held, activity)) @@ st.items])

\* load_tile_activities, test-noGPT.py 27-36
load_tile_activities(rows) ==
    LoadActivities(Tail(rows), [names |-> <<>>, items |-> EmptyDict])

\* the 26 items a, b, ..., z in one cell
ManyItems == [i \in 1..51 |-> IF i % 2 = 1 THEN Letters[(i + 1) \div 2] ELSE ","]
TileCells == {"Zulrah", " Zulrah ", "zulrah", "Vorkath ", ""}
ActivityCells == {"Tanzanite Fang", "tanzanite fang ", "Magic Fang"}
ItemCells == {"Fang, fang ;Scale", "Scale\nFang", " , Scale", ""}
\* the rows a sheet can hold below its header
SheetRows ==
    {<<Chars(tile), Chars(activity), Chars(items)>> :
         tile \in TileCells, activity \in ActivityCells, items \in ItemCells}
    \cup {<<Chars("Zulrah"), Chars("Magic Fang"), ManyItems>>,
          <<Chars("Zulrah")>>, <<>>}
MaxSheetRows == 2
SheetHeader == <<Chars("Tile"), Chars("Activity"), Chars("Items")>>
Sheets == UNION {{<<SheetHeader>> \o body : body \in [1..n -> SheetRows]} :
                    n \in 1..MaxSheetRows}

\* init_sheets_with_retry reads the taxonomy (tilerace.py 141)
LoadFromTilesSheet(rows) ==
    /\ variant = "buttons"
    /\ tasks = EmptyBag
    /\ tasks' = Start([pc |-> "returned", kind |-> "tiles", rows |-> rows,
                       result |-> load_from_tiles_sheet(rows)])
    /\ UNCHANGED <<Config, World, ButtonState>>

\* the taxonomy is read when the module is loaded (test-noGPT.py 38)
LoadTileActivities(rows) ==
    /\ variant = "reaction"
    /\ tasks = EmptyBag
    /\ tasks' = Start([pc |-> "returned", kind |-> "activities", rows |-> rows,
                       result |-> load_tile_activities(rows)])
    /\ UNCHANGED <<Config, World, ButtonState>>

InitLoad ==
    /\ variant \in {"reaction", "buttons"}
    /\ modeCell = "TRUE"
    /\ team_sheet = TeamDetails
    /\ submissions_row1 = SubmissionsHeader
    /\ clock = 0
    /\ ledger = <<>>
    /\ messages = [m \in Msgs |-> NoMessage]
    /\ forwarded = EmptyBag
    /\ submission_message_guild_map = EmptyDict
    /\ api_cost_log = <<>>
    /\ HEALTH = [sheets_ready |-> FALSE, last_error |-> 0]
    /\ handles = {}
    /\ initTask = [pc |-> "not started", attempt |-> 0, wait |-> 0]
    /\ SUBMISSION_HEADER = <<>>
    /\ tile_names = <<>>
    /\ tile_items = <<>>
    /\ prompts = {}
    /\ modals = {}
    /\ APPROVAL_STATE = EmptyDict
    /\ tasks = EmptyBag

NextLoad ==
    \/ \E rows \in Sheets : LoadFromTilesSheet(rows)
    \/ \E rows \in Sheets : LoadTileActivities(rows)
    \/ \E t \in Suspended : Returned(t)

SpecLoad == InitLoad /\ [][NextLoad]_vars

----------------------------------------------------------------------------
(* Vocabulary of the properties *)

\* the step is the arrival of a request: t is what its handler is when it
\* first awaits (the answer of a failed check, or the defer)
Arrives(t) == /\ CopiesIn(t, tasks') > CopiesIn(t, tasks)
              /\ "req" \in DOMAIN t
              /\ t.pc \in {"reply", "deferred"}
Answered(t, out) == t.pc = "reply" /\ t.out = out
ServerMode == modeCell = "TRUE"
Routed == variant \in {"reaction", "buttons"}
\* the lookup key of a request under the mode the cell holds
LookupKey(req) == IF ServerMode THEN IdStr[req.guild] ELSE IdStr[req.channel]
\* the routing rows that carry a key
KeyRows(key) == {i \in 2..Len(team_sheet) :
                    Len(team_sheet[i]) >= 5 /\ team_sheet[i][2] = key}
FirstKeyRow(key) == CHOOSE i \in KeyRows(key) : \A j \in KeyRows(key) : i <= j
WellFormed(i) == \A c \in 3..5 : IsInt(team_sheet[i][c])
RowChannels(i) == <<IntOf[team_sheet[i][3]], IntOf[team_sheet[i][4]],
                    IntOf[team_sheet[i][5]]>>
Triple(channel_info) ==
    <<channel_info.approval, channel_info.approved, channel_info.denied>>
\* the request gets as far as the routing checks
ReachesRouting(req) ==
    Routed /\ req.guild # NoGuild /\ (variant = "buttons" => sheets_ready)

\* the creation timestamp a text carries (0: none)
TimestampIn(text) ==
    IF \E i \in 1..Len(text) : text[i].c = "ts"
    THEN text[CHOOSE i \in 1..Len(text) : text[i].c = "ts"].v
    ELSE 0

\* the submission an approval message stands for, by its creation timestamp
MessageTimestamp(m) ==
    IF messages[m].state = "live" /\ messages[m].embeds # <<>>
    THEN TimestampIn(messages[m].embeds[1].footer)
    ELSE 0

RowsOf(n) == {i \in 1..Len(ledger) : TimestampIn(ledger[i][1]) = n}

ApprovedChannels == {IntOf[TeamDetails[i][4]] : i \in 2..Len(TeamDetails)}
DeniedChannels == {IntOf[TeamDetails[i][5]] : i \in 2..Len(TeamDetails)}

\* copies of submission n sent to the channels chans
CopiesOf(n, chans) ==
    LET S == {f \in BagToSet(forwarded) :
                  f.ch \in chans /\ TimestampIn(f.embed.footer) = n}
    IN  BagCardinality([f \in S |-> forwarded[f]])

\* the step takes t out of the bag: it is t's handler that runs
Taken(t) == CopiesIn(t, tasks') < CopiesIn(t, tasks)

\* the step puts t into the bag: a handler has started or moved on to t
Started(t) == CopiesIn(t, tasks') > CopiesIn(t, tasks)

\* a header row has a column named activity, in any case
HasActivity(header) == \E i \in DOMAIN header : Lower(header[i]) = "activity"

Privileged == Administrator \cup ManageMessages

SubmitSucceeded(t) ==
    /\ t.kind = "submit" /\ t.pc = "reply"
    /\ t.out = "Submission received and sent for approval"
SubmitAppendFailed(t) ==
    /\ t.kind = "submit" /\ t.pc = "reply"
    /\ t.out = "Failed to record submission"
ApprovalReported(t) ==
    /\ t.kind = "approval" /\ t.pc = "reply"
    /\ t.out = "Approved and recorded"
ApprovalAppendFailed(t) ==
    /\ t.kind = "approval" /\ t.pc = "reply"
    /\ t.out = "Failed to record in Sheets"
\* an approval sub-flow whose row has been appended
PastAppend(t) ==
    \/ t.kind = "amount" /\ t.pc \in {"forward", "archive"}
    \/ ApprovalReported(t)

----------------------------------------------------------------------------
(* Properties *)

\* C1: once a decision on an approval message has completed (the message is
\* archived), an amount dialog handed in afterwards - from a sub-flow opened
\* before that decision - is rejected: its handler never gets past the ledger
\* append (it appends no row, forwards nothing and does not edit the message).
C1_LateDecisionIsRejected ==
    \A t \in Suspended :
        (t.kind = "amount" /\ t.pc \in {"forward", "archive"}) => ~t.after_decision

\* C2: when two different approvers run the Approve / pick item / enter amount
\* sub-flow on the same approval message, at most one of them gets past the
\* ledger append: no two handlers of different approvers have both appended
\* their row for the message.
C2_OneApproverCompletes ==
    \A t1, t2 \in Suspended :
        (PastAppend(t1) /\ PastAppend(t2) /\ t1.msg = t2.msg) => t1.who = t2.who

\* C3: no submission is forwarded both to the approved channel and to the
\* denied channel.
C3_NeverBothOutcomes ==
    \A n \in 1..clock :
        ~(CopiesOf(n, ApprovedChannels) > 0 /\ CopiesOf(n, DeniedChannels) > 0)

C5_AppendFailureAbortsCreation ==
    variant = "reaction" =>
        /\ \A t \in Suspended :
              SubmitAppendFailed(t) =>
                  /\ RowsOf(t.timestamp) = {}
                  /\ \A m \in Msgs : MessageTimestamp(m) # t.timestamp
        /\ \A m \in Msgs :
              messages[m].state = "live" => Cardinality(RowsOf(MessageTimestamp(m))) = 1
        /\ \A m \in DOMAIN submission_message_guild_map : messages[m] # NoMessage
        /\ \A t \in Suspended :
              (t.kind = "submit" /\ t.pc \in {"posting", "seeding"})
                  => Cardinality(RowsOf(t.timestamp)) = 1
        /\ \A n \in 1..clock : Cardinality(RowsOf(n)) <= 1

C5_Witness ==
    \E t \in Suspended :
        /\ SubmitAppendFailed(t)
        /\ ledger = <<>>
        /\ \A m \in Msgs : messages[m] = NoMessage
        /\ submission_message_guild_map = EmptyDict
    /\ api_cost_log = <<>>

\* C6: the Pending map holds only approval messages that have not received a
\* decision: every message id in it is still a live approval message.
C6_PendingHoldsOnlyUndecided ==
    \A m \in DOMAIN submission_message_guild_map : messages[m].state = "live"

\* C7: no reaction on a posted approval message is looked up in the Pending map
\* before that message's entry has been stored.
C7_NoLookupBeforeStored ==
    [][\A t \in Suspended :
          (t.pc = "event" /\ Taken(t) /\ messages[t.msg].state = "live")
              => t.msg \in DOMAIN submission_message_guild_map]_vars

C10_AppendFailureStopsApproval ==
    [][\A t \in Suspended :
          /\ (t.kind = "amount" /\ t.pc = "append" /\ Taken(t) /\ ledger' = ledger)
                => /\ CopiesIn(Reply("approval", t.who, t.msg,
                                     "Failed to record in Sheets"), tasks')
                        > CopiesIn(Reply("approval", t.who, t.msg,
                                         "Failed to record in Sheets"), tasks)
                   /\ UNCHANGED <<forwarded, messages>>
          /\ (ApprovalAppendFailed(t) /\ Taken(t))
                => UNCHANGED <<ledger, forwarded, messages>>]_vars

C10_Witness ==
    \E t \in Suspended :
        /\ ApprovalAppendFailed(t)
        /\ ledger = <<>> /\ forwarded = EmptyBag
        /\ messages[t.msg].state = "live" /\ messages[t.msg].view

\* C11 as stated: in channel mode a /submit from a channel other than the
\* registered one is answered "only from your designated team channel"
\* (Forbidden), not "not registered".
C11_OtherChannelIsForbidden ==
    [][\A t \in BagToSet(tasks') :
          (Arrives(t) /\ ReachesRouting(t.req) /\ ~ServerMode
              /\ KeyRows(IdStr[t.req.channel]) = {})
                => Answered(t, "designated team channel only")]_vars

\* C12: in server mode the lookup key is the guild id and the invoking channel
\* plays no part: a /submit from any channel of a registered guild is never
\* answered "not registered" or Forbidden, and when it passes its checks it
\* carries the guild id as lookup key and the channels of the guild's routing
\* row; from a guild that no row carries it is answered "not registered".
C12_ServerModeIgnoresChannel ==
    [][\A t \in BagToSet(tasks') :
          (Arrives(t) /\ ReachesRouting(t.req) /\ ServerMode) =>
              IF KeyRows(IdStr[t.req.guild]) = {}
              THEN Answered(t, "not registered")
              ELSE /\ ~Answered(t, "not registered")
                   /\ ~Answered(t, "designated team channel only")
                   /\ t.pc = "deferred" =>
                         /\ t.submission_lookup_id = IdStr[t.req.guild]
                         /\ \E i \in KeyRows(IdStr[t.req.guild]) :
                               Triple(t.channel_info) = RowChannels(i)]_vars

C12_Witness ==
    /\ ServerMode /\ Routed
    /\ \E t \in Suspended :
          /\ "req" \in DOMAIN t /\ t.pc = "deferred"
          /\ t.req.guild = 12345 /\ t.req.channel = 20
          /\ KeyRows("20") = {}
          /\ Triple(t.channel_info) = <<111, 222, 333>>

\* C13: resolution returns the (approval, approved, denied) channel ids of a
\* routing row whose key is the requested key, and "not registered" when no
\* row has that key; with the single row ("12345", 111, 222, 333), guild 12345
\* in server mode resolves to (111, 222, 333) and guild 99999 is answered
\* "not registered".
C13_ResolveReturnsRowOrNotRegistered ==
    [][\A t \in BagToSet(tasks') :
          (Arrives(t) /\ ReachesRouting(t.req)) =>
              /\ KeyRows(LookupKey(t.req)) = {} => Answered(t, "not registered")
              /\ t.pc = "deferred" =>
                    /\ t.channel_info.submission_id = LookupKey(t.req)
                    /\ \E i \in KeyRows(LookupKey(t.req)) :
                          WellFormed(i) /\ Triple(t.channel_info) = RowChannels(i)
              /\ (team_sheet = SingleRow /\ ServerMode) =>
                    /\ t.req.guild = 12345 =>
                          (t.pc = "deferred"
                              /\ Triple(t.channel_info) = <<111, 222, 333>>)
                    /\ t.req.guild = 99999 => Answered(t, "not registered")]_vars

C13_Witness ==
    /\ team_sheet = SingleRow /\ ServerMode
    /\ \E t1, t2 \in Suspended :
          /\ "req" \in DOMAIN t1 /\ t1.req.guild = 99999
          /\ Answered(t1, "not registered")
          /\ "req" \in DOMAIN t2 /\ t2.req.guild = 12345 /\ t2.pc = "deferred"
          /\ Triple(t2.channel_info) = <<111, 222, 333>>

KnownTile(req) == IF variant = "buttons" THEN req.tile_name \in SeqToSet(tile_names)
                  ELSE req.tile_name \in DOMAIN tile_activities
ManualTail(req) ==
    IF ~KnownTile(req) THEN "invalid tile"
    ELSE IF req.activity_name \notin SeqToSet(tile_activities[req.tile_name])
    THEN "invalid activity"
    ELSE IF req.amount <= 0 THEN "amount must be greater than 0"
    ELSE IF req.image = None THEN "must attach an image"
    ELSE "pass"
RoutingFailure(req) ==
    IF req.guild = NoGuild THEN "not in DMs"
    ELSE IF KeyRows(LookupKey(req)) = {} THEN "not registered"
    ELSE "pass"

\* the answers of /auto_submit to a failed detection, ownership test or match
DetectionErrors == {"vision analysis is temporarily unavailable",
                    "couldn't detect any items", "couldn't find a clear RSN",
                    "RSN doesn't match your Discord name", "Could not auto-match"}

\* C17 as stated: the checks are made in the order guild, routing, tile (or
\* detection), activity (or match), amount, image: a request answered with
\* the error of one check passes every check before it in this order.
C17_ClaimedOrder ==
    [][\A t \in BagToSet(tasks') :
          (Arrives(t) /\ Routed /\ t.pc = "reply") =>
              /\ t.out # "not in DMs" => t.req.guild # NoGuild
              /\ t.out \in {"amount must be greater than 0", "must attach an image"}
                    => IF t.kind = "auto" THEN t.req.image # BlankUrl
                       ELSE /\ KnownTile(t.req)
                            /\ t.req.activity_name
                                   \in SeqToSet(tile_activities[t.req.tile_name])
              /\ t.out = "must attach an image"
                    => (variant # "buttons" => t.req.amount > 0)]_vars

\* C17 amended: each command makes its checks in its own fixed order and a
\* request that fails several is answered with the error of the first:
\* /submit of test-noGPT.py and test-GPT.py: guild, routing, tile, activity,
\* amount, image; /auto_submit: guild, routing, amount, image, and only then
\* detection and matching; /submit of tilerace.py: guild, readiness, routing,
\* tile, image; /submit of test.py: tile, activity, amount, image.  A request
\* passes to the defer exactly when no check fails, and a rejected request
\* appends, posts and stores nothing, whether it is rejected before the defer
\* or by the detection after it.
C17_FirstFailureInCodeOrder ==
    [][/\ \A t \in BagToSet(tasks') :
            Arrives(t) =>
                LET req == t.req
                    expected ==
                        CASE variant = "direct" -> ManualTail(req)
                          [] variant = "reaction" /\ t.kind = "submit" ->
                                 IF RoutingFailure(req) # "pass"
                                 THEN RoutingFailure(req) ELSE ManualTail(req)
                          [] variant = "reaction" /\ t.kind = "auto" ->
                                 IF RoutingFailure(req) # "pass"
                                 THEN RoutingFailure(req)
                                 ELSE IF req.amount <= 0
                                 THEN "amount must be greater than 0"
                                 ELSE IF req.image = None
                                 THEN "must attach an image" ELSE "pass"
                          [] variant = "buttons" ->
                                 IF req.guild = NoGuild THEN "not in DMs"
                                 ELSE IF ~sheets_ready THEN "Setup is still starting"
                                 ELSE IF RoutingFailure(req) # "pass"
                                 THEN RoutingFailure(req)
                                 ELSE IF ~KnownTile(req) THEN "invalid tile"
                                 ELSE IF req.image = None
                                 THEN "must attach an image" ELSE "pass"
                IN  /\ (t.pc = "deferred") <=> (expected = "pass")
                    /\ t.pc = "reply" => t.out = expected
                    /\ UNCHANGED <<World, ButtonState>>
       /\ \A t \in BagToSet(tasks') :
            (Started(t) /\ t.kind = "auto" /\ t.pc = "reply"
                /\ t.out \in DetectionErrors)
                => (\E u \in Suspended : u.pc = "analysing" /\ Taken(u)
                                          /\ u.req.amount > 0 /\ u.req.image # None)
                   /\ UNCHANGED <<World, ButtonState>>
       /\ \A t \in Suspended :
            ("req" \in DOMAIN t /\ t.pc = "reply" /\ Taken(t))
                => UNCHANGED <<World, ButtonState>>]_vars

C17_Witness ==
    /\ variant = "reaction"
    /\ \E t \in Suspended :
          /\ "req" \in DOMAIN t /\ t.kind = "submit"
          /\ t.req.guild # NoGuild
          /\ t.req.tile_name \notin DOMAIN tile_activities
          /\ t.req.amount <= 0 /\ t.req.image = None
          /\ Answered(t, "invalid tile")
          /\ ledger = <<>> /\ \A m \in Msgs : messages[m] = NoMessage

\* C18: while the backing store is not ready, every decision-handling path
\* (Approve, item selection, amount entry, Deny) short-circuits with a "still
\* starting" answer: a step taken while not ready opens no item prompt and no
\* amount dialog, stores no choice, appends no row, forwards nothing, edits no
\* message, and every answer it issues is the "still starting" one.
C18_NotReadyShortCircuits ==
    [][~sheets_ready =>
          /\ prompts' \subseteq prompts
          /\ modals' \subseteq modals
          /\ DOMAIN APPROVAL_STATE' \subseteq DOMAIN APPROVAL_STATE
          /\ UNCHANGED <<ledger, forwarded, messages>>
          /\ \A t \in BagToSet(tasks') :
                (Started(t) /\ t.pc = "reply")
                    => t.out \in {"Sheets are still starting up",
                                  "Sheets still starting"}]_vars

\* C21: an item picked in a prompt by somebody other than the approver who
\* opened it is answered "This prompt isn't for you" and changes nothing: the
\* stored choices, the ledger, the approval messages, the prompts and the
\* amount dialogs stay as they are.  So a choice is only ever stored, and an
\* amount dialog only ever opened, by the approver the prompt belongs to.
C21_ForeignSelectionChangesNothing ==
    [][/\ \A t \in BagToSet(tasks') :
            (Started(t) /\ t.kind = "select" /\ t.out = "This prompt isn't for you")
                => UNCHANGED <<APPROVAL_STATE, modals, prompts, World>>
       /\ \A d \in modals' \ modals :
            /\ d.shown_to = d.invoker_id
            /\ \E p \in prompts : p.msg = d.msg /\ p.invoker_id = d.shown_to
       /\ \A k \in DOMAIN APPROVAL_STATE' :
            (k \notin DOMAIN APPROVAL_STATE \/ APPROVAL_STATE'[k] # APPROVAL_STATE[k])
                => \E d \in modals' : d.msg = k[1] /\ d.invoker_id = k[2]
                                        /\ d.shown_to = k[2]]_vars

C21_Witness ==
    \E t \in Suspended, p \in prompts :
        /\ t.kind = "select" /\ t.out = "This prompt isn't for you"
        /\ p.msg = t.msg /\ p.invoker_id # t.who
        /\ approver_check(t.who) /\ approver_check(p.invoker_id)
        /\ <<p.msg, p.invoker_id>> \notin DOMAIN APPROVAL_STATE
        /\ modals = {}

\* the step takes a handed-in amount dialog into process_approval as t
EntersApproval(t) ==
    /\ Started(t)
    /\ \/ t.kind = "amount" /\ t.pc = "append"
       \/ t.kind = "approval" /\ t.pc = "reply"
             /\ t.out \in {"Sheets are still starting up", "Missing submission ID",
                            "Could not find target channels"}

C19_InitTerminates ==
    /\ [](/\ initTask.attempt <= max_tries
          /\ initTask.pc = "sleeping" =>
                /\ initTask.attempt < max_tries
                /\ initTask.wait = 2 ^ initTask.attempt
                /\ initTask.wait <= 30
                /\ ~sheets_ready /\ HEALTH.last_error = initTask.attempt
          /\ initTask.pc = "trying" => ~sheets_ready
          /\ (initTask.pc = "done" /\ ~sheets_ready) => HEALTH.last_error = max_tries
          /\ sheets_ready => initTask.pc = "done")
    /\ [][/\ (~sheets_ready /\ sheets_ready')
                => (initTask.pc = "trying" /\ initTask'.pc = "done")
          /\ (initTask.pc = "trying" /\ initTask'.pc = "done" /\ ~sheets_ready')
                => initTask.attempt = max_tries
          /\ initTask.pc = "done" => UNCHANGED <<initTask, HEALTH>>]_vars
    /\ (variant = "buttons") ~> (initTask.pc = "done")

C19_Witness ==
    /\ initTask.pc = "done" /\ ~sheets_ready
    /\ HEALTH.last_error = max_tries

----------------------------------------------------------------------------
(* The matcher and the name test: the calls made and what they returned *)

MatchCalls == {t \in Suspended : t.kind = "match"}
NameCalls == {t \in Suspended : t.kind = "names"}
\* the scored pairs of a call, in the order the loops visited them
ScoredOf(t) == Scored(t.order, Candidates(t.taxonomy))
Equal(x, y) == AtLeast(x, y) /\ AtLeast(y, x)

\* C23: the threshold is inclusive: the matcher returns a tile exactly when
\* some pair scores at least the threshold, a pair scoring exactly the
\* threshold counts and a pair scoring less never does, whatever the
\* threshold; the tile returned is the tile of such a pair.
C23_ThresholdIsInclusive ==
    \A t \in MatchCalls :
        LET rows == ScoredOf(t)
            accepted == {i \in 1..Len(rows) :
                            AtLeast(rows[i].score, Whole(t.score_threshold))}
        IN  /\ (t.result.tile # None) <=> (accepted # {})
            /\ t.result.tile # None => \E i \in accepted : rows[i].tile = t.result.tile
            /\ (\A i \in 1..Len(rows) :
                    ~Above(rows[i].score, Whole(t.score_threshold - 1)))
                   => t.result.tile = None

\* a pair scores exactly the threshold, none scores more, and its tile is returned
C23_Witness ==
    \E t \in MatchCalls :
        LET rows == ScoredOf(t)
        IN  /\ \E i \in 1..Len(rows) :
                   /\ Equal(rows[i].score, Whole(t.score_threshold))
                   /\ rows[i].tile = t.result.tile
            /\ \A i \in 1..Len(rows) : ~Above(rows[i].score, Whole(t.score_threshold))

\* the keys of ALIAS_HINTS in the order the dict holds them
AliasKeys == << <<"t", "o", "a">>, <<"c", "o", "x">>, <<"t", "o", "b">>,
                <<"z", "c", "b">>, <<"d", "w", "h">>, <<"s", "r", "a">> >>
\* seq with the texts of more that it does not hold yet, in their order
RECURSIVE AddNew(_, _)
AddNew(seq, more) ==
    IF more = <<>> THEN seq
    ELSE AddNew(IF Head(more) \in SeqToSet(seq) THEN seq ELSE Append(seq, Head(more)),
                Tail(more))
\* the texts of expanded in the order lines 208-217 add them: the order of
\* the detected inputs, each followed by its aliases
RECURSIVE InputOrder(_)
InputOrder(detected_items) ==
    IF detected_items = <<>> THEN <<>>
    ELSE LET n == norm(Chars(detected_items[Len(detected_items)]))
             before == InputOrder(SubSeq(detected_items, 1, Len(detected_items) - 1))
             hints == SelectSeq(AliasKeys, LAMBDA key : Contains(n, key))
         IN  IF n = <<>> THEN before
             ELSE AddNew(before, <<n>> \o [i \in 1..Len(hints) |->
                                              norm(ALIAS_HINTS[hints[i]])])
Smallest(S) == CHOOSE x \in S : \A y \in S : x <= y

\* C24: the matcher returns the one accepted pair with the highest score, and
\* among pairs with the same highest score the one seen first when the
\* detected inputs are taken in their order and, for each, the candidates in
\* the order of the candidate list.
C24_HighestFirstSeenWins ==
    \A t \in MatchCalls :
        LET rows == Scored(InputOrder(t.detected_items), Candidates(t.taxonomy))
            accepted == {i \in 1..Len(rows) :
                            AtLeast(rows[i].score, Whole(t.score_threshold))}
            highest == {i \in accepted :
                           \A j \in accepted : AtLeast(rows[i].score, rows[j].score)}
        IN  IF accepted = {} THEN t.result.tile = None
            ELSE t.result.tile = rows[Smallest(highest)].tile

\* C25: the matcher is deterministic: a call returns the tile, the item and
\* the debug rows, in their order, that any other run on the same detected
\* texts, taxonomy and threshold returns, however the set of the expanded
\* texts is iterated.
C25_SameInputsSameResult ==
    \A t \in MatchCalls :
        \A other \in Orders(expanded(t.detected_items)) :
            best_match_tile_activity(t.detected_items, t.taxonomy,
                                     t.score_threshold, other) = t.result

\* C26: with the taxonomy of tile "Zulrah" and its items "Tanzanite Fang" and
\* "Magic Fang", the detected texts "tanzanite fang" and "zulrah" at threshold
\* 88 match tile "Zulrah" and item "Tanzanite Fang".
C26_ZulrahScenario ==
    \A t \in MatchCalls :
        (/\ t.taxonomy = TaxonomyZulrah
         /\ t.score_threshold = 88
         /\ SeqToSet(t.detected_items) = {"tanzanite fang", "zulrah"})
            => t.result.tile = "Zulrah" /\ t.result.act = "Tanzanite Fang"

\* the scenario with the tile name met first: the item is the tile's first
C26_Witness ==
    \E t \in MatchCalls :
        /\ t.taxonomy = TaxonomyZulrah
        /\ t.score_threshold = 88
        /\ t.detected_items = <<"tanzanite fang", "zulrah">>
        /\ t.order[1] = norm(Chars("zulrah"))
        /\ t.result.tile = "Zulrah" /\ t.result.act = "Tanzanite Fang"

\* C27: the name test answers no when either name is empty once normalised
\* (also when both are), yes when the normalised names are equal and not
\* empty, and otherwise yes exactly when their similarity ratio, 200 times
\* the longest common subsequence over the sum of the lengths, is at least
\* the threshold.
C27_NamesMatchCases ==
    \A t \in NameCalls :
        LET a == norm_name_for_compare(Chars(t.rsn))
            b == norm_name_for_compare(Chars(t.discord_name))
        IN  /\ (a = <<>> \/ b = <<>>) => t.result = FALSE
            /\ (a # <<>> /\ a = b) => t.result = TRUE
            /\ (a # <<>> /\ b # <<>> /\ a # b)
                   => (t.result <=> 200 * LCS(a, b) >= t.threshold * (Len(a) + Len(b)))

\* both names are empty once normalised, and the answer is no
C27_Witness ==
    \E t \in NameCalls :
        /\ norm_name_for_compare(Chars(t.rsn)) = <<>>
        /\ norm_name_for_compare(Chars(t.discord_name)) = <<>>
        /\ t.discord_name # ""
        /\ t.result = FALSE

\* C28: at the default threshold of 90, "Zezima" matches "zezima" and
\* "Zezimaa", and does not match "Woox".
C28_ZezimaScenario ==
    \A t \in NameCalls :
        (t.rsn = "Zezima" /\ t.threshold = 90) =>
            /\ t.discord_name \in {"zezima", "Zezimaa"} => t.result = TRUE
            /\ t.discord_name = "Woox" => t.result = FALSE

\* the near miss "Zezimaa" is accepted
C28_Witness ==
    \E t \in NameCalls :
        /\ t.rsn = "Zezima" /\ t.discord_name = "Zezimaa" /\ t.threshold = 90
        /\ t.result = TRUE

----------------------------------------------------------------------------
(* /auto_submit: the name filter and the quota signal *)

AllAnswers == OracleAnswers(ImageUrl) \cup OracleAnswers(BlankUrl)
\* the detected player name is not UNKNOWN and passes the name test against
\* the submitter's display name
Reconciled(rsn) == rsn # "UNKNOWN" /\ names_match(rsn, Submitter, 90)
\* the RSN fields of the embeds of auto submissions
AutoRsnFields(embed) ==
    {embed.fields[i].value : i \in {j \in 1..Len(embed.fields) :
                                       embed.fields[j].name = "RSN"}}
\* the step appends to the ledger or to the cost log, or issues the post of
\* an approval message
Persists ==
    \/ ledger' # ledger
    \/ api_cost_log' # api_cost_log
    \/ \E u \in BagToSet(tasks') : u.pc = "posting" /\ Started(u)

\* C29: on the auto-detect path the name test comes before anything is
\* kept: a step of the handler that appends a ledger row, writes a cost-log
\* row or issues the post of an approval message is taken on an answer whose
\* player name is not UNKNOWN and matches the submitter's display name; every
\* cost-log row, every post being issued and every approval message of an
\* auto submission carries such a name.
C29_NameTestBeforePersistence ==
    [][/\ \A t \in Suspended, answer \in AllAnswers,
             appendOk \in BOOLEAN, costOk \in BOOLEAN, channelFound \in BOOLEAN :
              (AutoSubmitAnalysed(t, answer, appendOk, costOk, channelFound) /\ Persists)
                  => answer.kind = "ok" /\ Reconciled(answer.rsn)
       /\ \A i \in 1..Len(api_cost_log') : Reconciled(api_cost_log'[i][8].rsn)
       /\ \A u \in BagToSet(tasks') :
              (u.pc = "posting" /\ u.kind = "auto")
                  => \A rsn \in AutoRsnFields(u.embed) : Reconciled(rsn)
       /\ \A m \in Msgs :
              messages'[m].state = "live"
                  => \A rsn \in AutoRsnFields(messages'[m].embeds[1]) : Reconciled(rsn)
      ]_vars

\* an auto submission whose name matched is in the ledger, in the cost log
\* and posted
C29_Witness ==
    /\ variant = "reaction"
    /\ Len(ledger) = 1 /\ Len(api_cost_log) = 1
    /\ \E m \in Msgs : /\ messages[m].state = "live"
                       /\ AutoRsnFields(messages[m].embeds[1]) = {"Sam"}

\* the errors by which the API reports that the quota is used up
QuotaErrors == {"429 insufficient_quota", "Quota exceeded"}
QuotaReply == "vision analysis is temporarily unavailable"

\* C30: when the API call of the image analysis fails because the quota is
\* used up, the handler of /auto_submit answers the submitter with the "try
\* again later or use /submit" message and keeps nothing: no ledger row, no
\* cost-log row, no post of an approval message, no entry of the Pending map;
\* it never answers as if nothing had been detected.
C30_QuotaIsSurfaced ==
    [][\A t \in Suspended, msg \in QuotaErrors,
          appendOk \in BOOLEAN, costOk \in BOOLEAN, channelFound \in BOOLEAN :
           AutoSubmitAnalysed(t, [kind |-> "error", msg |-> msg],
                              appendOk, costOk, channelFound)
               => /\ \E u \in BagToSet(tasks') :
                         /\ Started(u) /\ u.pc = "reply" /\ u.out = QuotaReply
                         /\ u.timestamp = t.timestamp
                  /\ \A u \in BagToSet(tasks') : Started(u) => u.pc = "reply"
                  /\ UNCHANGED <<ledger, api_cost_log, messages, forwarded,
                                 submission_message_guild_map>>
      ]_vars

\* the quota answer is on its way to the submitter and nothing has been kept
C30_Witness ==
    /\ \E u \in Suspended : u.pc = "reply" /\ u.kind = "auto" /\ u.out = QuotaReply
    /\ ledger = <<>> /\ api_cost_log = <<>>
    /\ \A m \in Msgs : messages[m] = NoMessage
    /\ submission_message_guild_map = EmptyDict

----------------------------------------------------------------------------
(* Loading the taxonomy *)

LoadCalls == {t \in Suspended : t.kind \in {"tiles", "activities"}}
\* the rows below the header that the loader reads a tile from, and the
\* tile each names
DataRows(t) ==
    {i \in 2..Len(t.rows) : Len(t.rows[i]) >= (IF t.kind = "tiles" THEN 1 ELSE 2)}
TileOf(t, i) == strip(t.rows[i][1])
\* the items a row gives to its tile
ItemsOf(t, i) ==
    IF t.kind = "tiles" THEN SeqToSet(split_items_field(strip(Cell(t.rows[i], 3))))
    ELSE {strip(t.rows[i][2])}
FirstRowOf(t, name) == Smallest({i \in DataRows(t) : TileOf(t, i) = name})

\* C31: the loaded taxonomy holds each tile name once, in first-seen order
\* of the trimmed names, also when a name repeats across rows; the items of
\* all rows of a tile are in that tile's one list (up to the cap); the item
\* names of a tile are unique whatever their case, and at most 25.
C31_TaxonomyIsLoadedDeduplicated ==
    \A t \in LoadCalls :
        LET names == t.result.names
            items == t.result.items
        IN  /\ \A i, j \in 1..Len(names) : names[i] = names[j] => i = j
            /\ \A i \in 1..Len(names) : \E r \in DataRows(t) : TileOf(t, r) = names[i]
            /\ \A i, j \in 1..Len(names) :
                   i < j => FirstRowOf(t, names[i]) < FirstRowOf(t, names[j])
            /\ \A tile \in DOMAIN items :
                   /\ Len(items[tile]) <= 25
                   /\ \A i, j \in 1..Len(items[tile]) :
                          lower(items[tile][i]) = lower(items[tile][j]) => i = j
            /\ \A r \in DataRows(t) : \A it \in ItemsOf(t, r) :
                   (TileOf(t, r) \in SeqToSet(names) /\ it # <<>>) =>
                       /\ TileOf(t, r) \in DOMAIN items
                       /\ \/ Len(items[TileOf(t, r)]) = 25
                          \/ \E k \in 1..Len(items[TileOf(t, r)]) :
                                 lower(items[TileOf(t, r)][k]) = lower(it)

----------------------------------------------------------------------------
(* Deny in the buttons variant *)

DenyReported(t) == t.kind = "deny" /\ t.pc = "reply" /\ t.out = "Denied"

\* a handler of a Deny press that got past its checks
DenyRuns(t) == t.kind = "deny" /\ t.pc \in {"forward", "archive"}

\* the denied channel of the routing entry the embed's lookup key resolves to
DeniedChannelOf(embed) ==
    get_channel_ids_for_submission(
        parse_submission_from_embed(embed).submission_id).denied

----------------------------------------------------------------------------
(* The amount step of the buttons variant *)

\* the text is the decimal notation of a positive integer
IsPositiveInteger(text) ==
    LET c == Chars(text)
    IN  /\ c # <<>>
        /\ \A i \in DOMAIN c : c[i] \in SeqToSet(Digits)
        /\ \E i \in DOMAIN c : c[i] # "0"

\* an amount dialog handed in with a text that is no positive integer
InvalidAmount(t) ==
    t.kind = "amount" /\ t.pc = "deferred" /\ ~IsPositiveInteger(t.text)

\* C33: the handler of an amount dialog handed in with zero, a negative number
\* or a text that is no number ends with a reply: it appends no ledger row,
\* forwards nothing, leaves the approval message as it is and leaves the stored
\* item selections as they are
C33_InvalidAmountIsRejected ==
    [][\A t \in Suspended :
          InvalidAmount(t) /\ Taken(t) =>
              /\ ledger' = ledger
              /\ forwarded' = forwarded
              /\ messages' = messages
              /\ APPROVAL_STATE' = APPROVAL_STATE
              /\ \E out \in {"no permission", "Sheets are still starting up",
                              "Missing submission embed",
                              "Amount must be a positive integer"} :
                     Started(Reply("amount", t.who, t.msg, out))]_vars

\* an invalid amount was turned down while the approver's selection is stored
\* and the approval message still shows its buttons
C33_Witness ==
    \E t \in Suspended :
        /\ t.kind = "amount" /\ t.pc = "reply"
        /\ t.out = "Amount must be a positive integer"
        /\ <<t.msg, t.who>> \in DOMAIN APPROVAL_STATE
        /\ messages[t.msg].state = "live" /\ messages[t.msg].view
        /\ ledger = <<>> /\ forwarded = EmptyBag

----------------------------------------------------------------------------
(* What the matcher returns *)

\* the pairs of rows that score at least the threshold
AcceptedIn(rows, score_threshold) ==
    {i \in 1..Len(rows) : AtLeast(rows[i].score, Whole(score_threshold))}

\* the items the taxonomy lists for the tile
ItemsListed(taxonomy, tile) ==
    {taxonomy[i].acts : i \in {j \in 1..Len(taxonomy) : taxonomy[j].tile = tile}}

\* d is the debug trace of the scored pairs rows: the pairs scoring 60 or
\* more, highest first, ten at most
IsDebugTrace(d, rows) ==
    LET kept == {i \in 1..Len(rows) : AtLeast(rows[i].score, Whole(60))}
    IN  /\ Len(d) = IF Cardinality(kept) > 10 THEN 10 ELSE Cardinality(kept)
        /\ \A k \in 1..Len(d) : \E i \in kept : rows[i] = d[k]
        /\ \A k, l \in 1..Len(d) : k # l => d[k] # d[l]
        /\ \A k \in 1..(Len(d) - 1) : AtLeast(d[k].score, d[k + 1].score)
        /\ \A i \in kept :
               \/ \E k \in 1..Len(d) : d[k] = rows[i]
               \/ (Len(d) = 10 /\ AtLeast(d[10].score, rows[i].score))

\* C34: when the winning pair (the first, as the loops visited them, of the
\* accepted pairs with the highest score) is a tile name, the item returned is
\* the first item of that tile, or none when the tile has no item; when no
\* pair is accepted, no tile and no item are returned; in both cases the debug
\* trace (the pairs scoring 60 or more, highest first, ten at most) is returned.
C34_TileOnlyAndNoMatch ==
    \A t \in MatchCalls :
        LET rows == ScoredOf(t)
            accepted == AcceptedIn(rows, t.score_threshold)
            highest == {i \in accepted :
                           \A j \in accepted : AtLeast(rows[i].score, rows[j].score)}
        IN  /\ IsDebugTrace(t.result.debug_rows, rows)
            /\ IF accepted = {}
               THEN t.result.tile = None /\ t.result.act = None
               ELSE LET winner == rows[Smallest(highest)]
                    IN  winner.act = None =>
                            /\ t.result.tile = winner.tile
                            /\ \A acts \in ItemsListed(t.taxonomy, winner.tile) :
                                   t.result.act = IF acts = <<>> THEN None ELSE acts[1]

\* a call that accepts no pair and returns a debug trace that is not empty
C34_Witness ==
    \E t \in MatchCalls :
        /\ AcceptedIn(ScoredOf(t), t.score_threshold) = {}
        /\ t.result.tile = None /\ t.result.act = None
        /\ Len(t.result.debug_rows) > 0

\* C40: when the matcher returns a tile with an item, the tile is a tile of
\* the taxonomy it was given and the item is one of the items the taxonomy
\* lists for that tile
C40_ItemBelongsToTile ==
    \A t \in MatchCalls :
        (t.result.tile # None /\ t.result.act # None) =>
            /\ \E i \in 1..Len(t.taxonomy) : t.taxonomy[i].tile = t.result.tile
            /\ \A acts \in ItemsListed(t.taxonomy, t.result.tile) :
                   t.result.act \in SeqToSet(acts)

\* the second tile of a taxonomy is returned through its name, with its own
\* first item, which the first tile does not list
C40_Witness ==
    \E t \in MatchCalls :
        /\ Len(t.taxonomy) = 2
        /\ t.result.tile = t.taxonomy[2].tile
        /\ t.result.act # None
        /\ t.result.act = t.taxonomy[2].acts[1]
        /\ t.result.act \notin SeqToSet(t.taxonomy[1].acts)
        /\ \E i \in 1..Len(ScoredOf(t)) :
               /\ ScoredOf(t)[i].act = None
               /\ ScoredOf(t)[i].tile = t.result.tile
               /\ AtLeast(ScoredOf(t)[i].score, Whole(t.score_threshold))

----------------------------------------------------------------------------
(* Where a decision forwards to *)

\* the lookup key a footer was written with
SidWritten(footer) ==
    footer[CHOOSE i \in 1..Len(footer) : footer[i].c = "digits"].v

\* the lookup key recorded for the submission a decision handler works on: the
\* value the Pending map holds for the message, or the key in the embed's footer
RecordedKey(t) ==
    IF t.kind = "reaction" THEN submission_message_guild_map[t.msg]
    ELSE SidWritten(t.embed.footer)

IsApproval(t) == t.kind = "amount" \/ (t.kind = "reaction" /\ t.emoji = "check")

\* C35: every copy a decision forwards goes to the approved channel (approval)
\* or the denied channel (denial) of the first routing row that carries the
\* lookup key recorded for the submission when it was created, whatever the
\* mode cell holds when the decision is made
C35_DestinationFromRecordedKey ==
    [][\A t \in Suspended :
          (t.kind \in {"reaction", "deny", "amount"} /\ Taken(t)
              /\ forwarded' # forwarded) =>
              \A f \in BagToSet(forwarded') :
                  CopiesIn(f, forwarded') > CopiesIn(f, forwarded) =>
                      /\ KeyRows(RecordedKey(t)) # {}
                      /\ f.ch = RowChannels(FirstKeyRow(RecordedKey(t)))[
                                    IF IsApproval(t) THEN 2 ELSE 3]]_vars

\* a submission created in channel mode has been denied while the cell says
\* server mode: its copy is in the denied channel of the channel's routing row
C35_Witness ==
    /\ modeCell = "TRUE"
    /\ \E t \in Suspended :
          /\ t.kind = "deny" /\ t.pc = "archive"
          /\ SidWritten(t.embed.footer) = "10"
          /\ \E f \in BagToSet(forwarded) :
                 f.ch = 555 /\ f.embed = denied_embed(t.embed)

----------------------------------------------------------------------------
(* The approval embed read back *)

\* what /submit of tilerace wrote into an approval embed, by where it wrote it
WrittenIn(embed) ==
    [tile |-> embed.fields[1].value,
     user_display |-> embed.fields[2].value,
     image_url |-> embed.image,
     timestamp_str |-> <<embed.footer[2]>>,
     submission_id |-> SidWritten(embed.footer)]

\* the approval embeds /submit of tilerace is about to post
EmbedsBuilt ==
    {t.embed : t \in {u \in Suspended : u.kind = "submit" /\ u.pc = "posting"
                                             /\ variant = "buttons"}}

\* C36: reading an approval embed built by /submit gives back the tile, the
\* submitter's display name, the image URL, the lookup key and the creation
\* timestamp exactly as they were written, and the first cell of a ledger row
\* written on approval is a creation timestamp and nothing else
C36_RoundTripIsExact ==
    /\ \A embed \in EmbedsBuilt : parse_submission_from_embed(embed) = WrittenIn(embed)
    /\ variant = "buttons" =>
           \A i \in 1..Len(ledger) :
               Len(ledger[i][1]) = 1 /\ ledger[i][1][1].c = "ts"

----------------------------------------------------------------------------
(* Readiness *)

\* C37: whenever the ready flag is set, all seven handles are set and the
\* taxonomy held is one loaded as a whole (the tile names and the items of
\* exactly these tiles, from one load); and once the flag is set no step, a
\* failed pass of a later initialisation included, clears it or a handle.
C37_ReadyMeansInitialised ==
    /\ [](HEALTH.sheets_ready =>
              /\ handles = SeqToSet(Handles)
              /\ tile_names = LoadedTileNames /\ tile_items = LoadedTileItems
              /\ DOMAIN tile_items = SeqToSet(tile_names))
    /\ [][HEALTH.sheets_ready =>
              (HEALTH'.sheets_ready /\ handles \subseteq handles')]_vars

\* ready, and a pass of a later initialisation has failed since
C37_Witness ==
    /\ HEALTH.sheets_ready /\ handles = SeqToSet(Handles)
    /\ HEALTH.last_error > 0
    /\ initTask.pc \in {"sleeping", "done"}

----------------------------------------------------------------------------
(* What a reaction event can do *)

\* C38: in the reaction-driven bots a reaction event of the bot itself is
\* dropped at once whatever the message; the handler of a reaction event never
\* changes the ledger or the Pending map; and it changes a message or sends a
\* copy only when the reaction is the approve or the deny emoji, of a user
\* other than the bot, on a message the Pending map holds.
C38_OnlyTrackedDecisionsAct ==
    /\ [](variant = "reaction" =>
              \A m \in Msgs, channelFound \in BOOLEAN :
                  ReactionEntry(BOT, m, channelFound) = "return")
    /\ [][\A t \in Suspended :
              (t.kind = "reaction" /\ Taken(t)) =>
                  /\ ledger' = ledger
                  /\ submission_message_guild_map' = submission_message_guild_map
                  /\ (messages' # messages \/ forwarded' # forwarded) =>
                         /\ t.who # BOT
                         /\ t.emoji \in {"check", "cross"}
                         /\ t.msg \in DOMAIN submission_message_guild_map]_vars

\* a reaction with another emoji on a message the Pending map holds has got as
\* far as the fetch of the message, which is still there with nothing forwarded
C38_Witness ==
    \E t \in Suspended :
        /\ t.kind = "reaction" /\ t.pc = "fetch" /\ t.emoji = "eyes"
        /\ t.msg \in DOMAIN submission_message_guild_map
        /\ messages[t.msg].state = "live"
        /\ forwarded = EmptyBag

----------------------------------------------------------------------------
(* Ledger rows and approval messages of the reaction-driven bots *)

\* creation handlers that have appended their row and are still on their way
\* to the post or to the store of the mapping
CreationsAfterAppend ==
    LET S == {t \in Suspended : t.kind \in {"submit", "auto"}
                                    /\ t.pc \in {"posting", "seeding"}}
    IN  BagCardinality([t \in S |-> tasks[t]])

\* C39: in the reaction-driven bots no ledger row is an orphan: each row
\* appended at creation has its approval message recorded in the Pending map,
\* or its creation handler is still on its way there.
C39_NoOrphanLedgerRow ==
    variant = "reaction" =>
        Len(ledger) <= Cardinality(DOMAIN submission_message_guild_map)
                           + CreationsAfterAppend

====
